---- MODULE Spec2Model ----
(***************************************************************************)
(* A model of MaskedArray.py: an ndarray paired with a boolean mask, the   *)
(* masked versions of the ufuncs and the __array_function__                *)
(* implementations.  An ndarray is a record [shape, v]: its shape and its  *)
(* elements in C order.  A MaskedArray is [dt, d, m, w]: the datatype, the *)
(* _data ndarray, the _mask ndarray and the WRITEABLE flag of _data.       *)
(***************************************************************************)
EXTENDS Integers, Sequences, FiniteSets, TLC

\* Largest number of elements of an array operand.
MaxSize == 3

\* Largest number of elements of the operands of a binary operation.
MaxBinSize == 2

\* the most views of its mask an array has given out
MaxViews == 1

\* arguments of a call and items of a list argument
MaxArgs == 2

MaxListLen == 2

(***************************************************************************)
(* The storage engine's values.  "int" stands for a signed integer type of *)
(* two bits, TypeMin..TypeMax; the float types hold two finite values and  *)
(* -inf, +inf and nan, written as numbers that keep numpy's sort order     *)
(* (nan sorts after +inf).                                                 *)
(***************************************************************************)
TypeMin == -2
TypeMax == 1
NegInf == -50
PosInf == 50
NaN == 99
IntpMax == 1000

DTypes == {"int", "float16", "float64"}

IsFloat(dt) == dt \in {"float16", "float64"}

\* the values the arrays are built from: both ends of the type and a value
\* between them
Vals(dt) ==
    IF dt = "int" THEN {TypeMin, 0 - 1, TypeMax}
    ELSE IF dt = "float16" THEN {1}
    ELSE {NegInf, 1, PosInf, NaN}

\* ntypes._minvals with -inf for the float types
max_filler(dt) ==
    IF dt = "intp" THEN 0 - IntpMax ELSE IF dt = "int" THEN TypeMin ELSE NegInf

\* ntypes._maxvals with +inf for the float types
min_filler(dt) ==
    IF dt = "intp" THEN IntpMax ELSE IF dt = "int" THEN TypeMax ELSE PosInf

(***************************************************************************)
(* Shapes, axes and the slices of a reduction.                             *)
(***************************************************************************)
RECURSIVE Size(_)
Size(shape) == IF shape = <<>> THEN 1 ELSE Head(shape) * Size(Tail(shape))

Shapes(n) ==
    {<<k>> : k \in 0..n} \cup
    {<<rc[1], rc[2]>> : rc \in {x \in (1..n) \X (1..n) : x[1] * x[2] <= n}}

\* axis is <<>> for axis=None and <<k>> for axis=k
Axes(shape) == {<<>>} \cup {<<k>> : k \in 0..(Len(shape) - 1)}

IntAxes(shape) == {<<k>> : k \in 0..(Len(shape) - 1)}

\* The shape a reduction over axis leaves.
OutShape(shape, axis) ==
    IF axis = <<>> \/ Len(shape) <= 1 THEN <<>>
    ELSE IF axis[1] = 0 THEN <<shape[2]>> ELSE <<shape[1]>>

\* The reduced slices, each the flat indices of its elements in axis order,
\* one per element of the result.
Slices(shape, axis) ==
    IF Len(shape) = 0 THEN << <<1>> >>
    ELSE IF axis = <<>> \/ Len(shape) = 1
    THEN << [i \in 1..Size(shape) |-> i] >>
    ELSE IF axis[1] = 0
    THEN [j \in 1..shape[2] |-> [i \in 1..shape[1] |-> (i - 1) * shape[2] + j]]
    ELSE [i \in 1..shape[1] |-> [j \in 1..shape[2] |-> (i - 1) * shape[2] + j]]

\* The slices a sort along axis works on: along an axis every one stays in place.
Lanes(shape, axis) ==
    IF Len(shape) <= 1 THEN << [i \in 1..Size(shape) |-> i] >>
    ELSE Slices(shape, axis)

Gather(v, idx) == [k \in 1..Len(idx) |-> v[idx[k]]]

\* v with the elements at the indices of every lane replaced by f(lane)
Scatter(v, lanes, f(_)) ==
    [p \in 1..Len(v) |->
        LET L == CHOOSE l \in 1..Len(lanes) : \E k \in 1..Len(lanes[l]) : lanes[l][k] = p
            K == CHOOSE k \in 1..Len(lanes[L]) : lanes[L][k] = p
        IN f(lanes[L])[K]]

(***************************************************************************)
(* The storage engine's kernels.                                           *)
(***************************************************************************)
Infs == {NegInf, PosInf}

\* addition in the accumulator type: integers are summed in intp (no wrap)
add(x, y) ==
    IF x = NaN \/ y = NaN THEN NaN
    ELSE IF x \in Infs THEN (IF y \in Infs /\ y # x THEN NaN ELSE x)
    ELSE IF y \in Infs THEN y
    ELSE x + y

multiply(x, y) ==
    IF x = NaN \/ y = NaN THEN NaN
    ELSE IF x \in Infs \/ y \in Infs
    THEN (IF x = 0 \/ y = 0 THEN NaN
          ELSE IF (x > 0) = (y > 0) THEN PosInf ELSE NegInf)
    ELSE x * y

\* maximum and minimum propagate nan
maximum(x, y) == IF x = NaN \/ y = NaN THEN NaN ELSE IF x >= y THEN x ELSE y

minimum(x, y) == IF x = NaN \/ y = NaN THEN NaN ELSE IF x <= y THEN x ELSE y

\* an elementwise result stored back in an array of type dt (integers wrap)
Wrap(dt, x) ==
    IF dt = "int"
    THEN ((x - TypeMin) % (TypeMax - TypeMin + 1)) + TypeMin
    ELSE x

\* the elementwise kernels of the ufuncs, on values of type dt
less(x, y) == x # NaN /\ y # NaN /\ x < y

greater(x, y) == x # NaN /\ y # NaN /\ x > y

negative(dt, x) == IF x = NaN THEN NaN ELSE Wrap(dt, 0 - x)

absolute(dt, x) == IF x = NaN THEN NaN ELSE IF x < 0 THEN Wrap(dt, 0 - x) ELSE x

UniKernel(ufunc, dt, x) ==
    CASE ufunc = "negative" -> negative(dt, x)
      [] ufunc = "absolute" -> absolute(dt, x)

BinKernel(ufunc, dt, x, y) ==
    CASE ufunc = "add" -> Wrap(dt, add(x, y))
      [] ufunc = "multiply" -> Wrap(dt, multiply(x, y))
      [] ufunc = "maximum" -> maximum(x, y)
      [] ufunc = "minimum" -> minimum(x, y)
      [] ufunc = "less" -> less(x, y)
      [] ufunc = "greater" -> greater(x, y)

RECURSIVE np_sum(_)
np_sum(s) == IF Len(s) = 0 THEN 0 ELSE add(np_sum(SubSeq(s, 1, Len(s) - 1)), s[Len(s)])

RECURSIVE np_prod(_)
np_prod(s) ==
    IF Len(s) = 0 THEN 1 ELSE multiply(np_prod(SubSeq(s, 1, Len(s) - 1)), s[Len(s)])

\* np.max and np.min raise on an empty slice: the callers test that first
RECURSIVE np_max(_)
np_max(s) ==
    IF Len(s) = 1 THEN s[1] ELSE maximum(np_max(SubSeq(s, 1, Len(s) - 1)), s[Len(s)])

RECURSIVE np_min(_)
np_min(s) ==
    IF Len(s) = 1 THEN s[1] ELSE minimum(np_min(SubSeq(s, 1, Len(s) - 1)), s[Len(s)])

np_all(s) == \A i \in 1..Len(s) : s[i]

\* a boolean array as the storage engine orders it: False before True
B2I(s) == [i \in 1..Len(s) |-> IF s[i] THEN 1 ELSE 0]

I2B(s) == [i \in 1..Len(s) |-> s[i] = 1]

\* np.argsort of a 1-d lane: the 0-based indices in sorted order (the sort of the
\* storage engine is a function of the values; ties keep their order)
np_argsort(s) ==
    LET rank(i) == Cardinality({j \in 1..Len(s) :
                       s[j] < s[i] \/ (s[j] = s[i] /\ j < i)})
    IN [k \in 1..Len(s) |-> (CHOOSE i \in 1..Len(s) : rank(i) = k - 1) - 1]

\* np.sort of a 1-d lane (nan, the largest number here, sorts last)
np_sort(s) == LET p == np_argsort(s) IN [k \in 1..Len(s) |-> s[p[k] + 1]]

np_sort_bool(s) == I2B(np_sort(B2I(s)))

\* true_divide keeps the quotient exact: numerator and denominator
true_divide(x, n) == [num |-> x, den |-> n]

(***************************************************************************)
(* The dual-array data model.                                              *)
(***************************************************************************)
NdArray(shape, v) == [shape |-> shape, v |-> v]

\* MaskedArray(data, mask) viewing the two ndarrays
MaskedArray(dt, d, m, w) == [dt |-> dt, d |-> d, m |-> m, w |-> w]

\* what lies under the mask when an array is made: a value that is none of
\* the fillers (0, 1, the extrema of the type, the infinities)
HiddenVals(dt) == IF dt = "int" THEN {0 - 1} ELSE {NaN}

\* the elements an array is built from: <<value, masked>>
Elems(dt) ==
    {<<v, FALSE>> : v \in Vals(dt)} \cup {<<v, TRUE>> : v \in HiddenVals(dt)}

\* the arrays of dtype dt and shape sh
ArraysOf(dt, sh) ==
    {MaskedArray(dt, NdArray(sh, [i \in 1..Size(sh) |-> e[i][1]]),
                 NdArray(sh, [i \in 1..Size(sh) |-> e[i][2]]), TRUE) :
        e \in [1..Size(sh) -> Elems(dt)]}

Arrays(n) == UNION {ArraysOf(dt, sh) : dt \in DTypes, sh \in Shapes(n)}

NoValue == <<>>

NOERR == "ok"

\* MaskedOperatorMixin._get_fill_value: fill_value is NoValue or <<value>>,
\* minmax is "None", "max" or "min"
get_fill_value(dt, fill_value, minmax) ==
    IF minmax # "None"
    THEN IF fill_value # NoValue
         THEN [err |-> "Exception", v |-> 0]
         ELSE IF minmax = "max" THEN [err |-> NOERR, v |-> max_filler(dt)]
         ELSE IF minmax = "min" THEN [err |-> NOERR, v |-> min_filler(dt)]
         ELSE [err |-> "ValueError", v |-> 0]
    ELSE IF fill_value = NoValue
         THEN [err |-> NOERR, v |-> 0]
         ELSE [err |-> NOERR, v |-> fill_value[1]]

\* d[~mask] = value
PutMask_unmasked(d, m, value) ==
    [d EXCEPT !.v = [i \in 1..Len(d.v) |-> IF m.v[i] THEN d.v[i] ELSE value]]

\* d[mask] = value on ndarrays of one shape
PutMask(d, m, value) ==
    [d EXCEPT !.v = [i \in 1..Len(d.v) |-> IF m.v[i] THEN value ELSE d.v[i]]]

\* filled with nothing filled in
filled_nofill(arr, fill_value, minmax, view) ==
    [err |-> NOERR, out |-> arr.d, a |-> arr, isview |-> view /\ arr.w]

\* MaskedArray.filled: out is the plain array returned, a the operand after the
\* call (a view of writeable data is filled in place), isview whether out
\* aliases the operand's data
filled(arr, fill_value, minmax, view) ==
    LET fv == get_fill_value(arr.dt, fill_value, minmax)
    IN  IF fv.err # NOERR
        THEN [err |-> fv.err, out |-> arr.d, a |-> arr, isview |-> FALSE]
        ELSE IF arr.m.shape # arr.d.shape
        THEN [err |-> "IndexError", out |-> arr.d, a |-> arr, isview |-> FALSE]
        ELSE IF view /\ arr.w
        THEN [err |-> NOERR, out |-> PutMask(arr.d, arr.m, fv.v),
              a |-> [arr EXCEPT !.d = PutMask(arr.d, arr.m, fv.v)], isview |-> TRUE]
        ELSE [err |-> NOERR, out |-> PutMask(arr.d, arr.m, fv.v),
              a |-> arr, isview |-> FALSE]

\* MaskedArray.count along axis (axis None: one number)
count(arr, axis) ==
    LET sl == Slices(arr.m.shape, axis)
    IN  NdArray(OutShape(arr.m.shape, axis),
                [k \in 1..Len(sl) |->
                    Cardinality({i \in 1..Len(sl[k]) : ~arr.m.v[sl[k][i]]})])

(***************************************************************************)
(* Operands of the binary operations: a MaskedArray, a MaskedScalar, a     *)
(* plain ndarray, a plain scalar or the sentinel X.                        *)
(***************************************************************************)
Operand(kind, dt, d, m, w) == [kind |-> kind, dt |-> dt, d |-> d, m |-> m, w |-> w]

AsOperand(arr) == Operand("MaskedArray", arr.dt, arr.d, arr.m, arr.w)

AsArray(x) == MaskedArray(x.dt, x.d, x.m, x.w)

NoOperand == Operand("None", "int", NdArray(<<>>, <<0>>), NdArray(<<>>, <<FALSE>>), FALSE)

\* masked = X = MaskedX()
X == Operand("X", "int", NdArray(<<>>, <<0>>), NdArray(<<>>, <<FALSE>>), FALSE)

\* the data of the second operands
BinVals(dt) == IF dt = "int" THEN {TypeMin} ELSE {1}

MaskedOperands(dt, shapes) ==
    UNION {{Operand(IF sh = <<>> THEN "MaskedScalar" ELSE "MaskedArray",
                    dt, NdArray(sh, dv), NdArray(sh, mv), TRUE) :
               dv \in [1..Size(sh) -> BinVals(dt)], mv \in [1..Size(sh) -> BOOLEAN]} :
           sh \in shapes}

PlainOperands(dt, shapes) ==
    UNION {{Operand(IF sh = <<>> THEN "scalar" ELSE "ndarray",
                    dt, NdArray(sh, dv), NdArray(<<>>, <<FALSE>>), TRUE) :
               dv \in [1..Size(sh) -> BinVals(dt)]} :
           sh \in shapes}

IsMasked(x) == x.kind \in {"MaskedArray", "MaskedScalar"}

\* getdata: the _data of a masked operand, the operand itself otherwise
getdata(x) == x.d

\* getmask: the _mask of a masked operand, False otherwise
getmask(x) == IF IsMasked(x) THEN x.m ELSE NdArray(<<>>, <<FALSE>>)

\* broadcasting of the storage engine, for equal shapes and 0-d operands
BroadcastShape(s1, s2) == IF s1 = <<>> THEN s2 ELSE s1

BroadcastTo(x, shape) ==
    IF x.shape = shape THEN x
    ELSE NdArray(shape, [i \in 1..Size(shape) |-> x.v[1]])

Broadcastable(s1, s2) == s1 = s2 \/ s1 = <<>> \/ s2 = <<>>

(***************************************************************************)
(* Results.  kind is "MaskedScalar", "MaskedArray", "ndarray" (a plain     *)
(* array), "None" (a method that returns nothing) or "raise".              *)
(***************************************************************************)
Result(kind, shape, d, m) == [kind |-> kind, shape |-> shape, d |-> d, m |-> m]

Raise(err) == Result("raise", <<>>, <<err>>, <<>>)

NoResult == Result("None", <<>>, <<>>, <<>>)

\* maskedarray_or_scalar with out=None: a scalar type for 0-d data
maskedarray_or_scalar(data, mask) ==
    Result(IF data.shape = <<>> THEN "MaskedScalar" ELSE "MaskedArray",
           data.shape, data.v, mask.v)

\* np.<f>(x, axis) of a plain array: f applied to every reduced slice
ReduceAxis(f(_), x, axis) ==
    LET sl == Slices(x.shape, axis)
    IN  NdArray(OutShape(x.shape, axis), [k \in 1..Len(sl) |-> f(Gather(x.v, sl[k]))])

\* np.sort(x, axis) and friends: f applied along every lane of the axis
AlongAxis(f(_), x, axis) ==
    LET lanes == Lanes(x.shape, axis)
        g(lane) == f(Gather(x.v, lane))
    IN  NdArray(x.shape, Scatter(x.v, lanes, g))

(***************************************************************************)
(* The __array_function__ implementations.  Each gives the result and the  *)
(* operand as the call leaves it.                                          *)
(***************************************************************************)
Ret(arr, res) == [a |-> arr, b |-> NoOperand, res |-> res]

\* the same for a call with a second operand y
Ret2(arr, y, res) == [a |-> arr, b |-> y, res |-> res]

\* @implements(np.sum)
sum(arr, axis) ==
    LET f == filled(arr, <<0>>, "None", TRUE)
    IN  Ret(f.a, maskedarray_or_scalar(ReduceAxis(np_sum, f.out, axis),
                                       ReduceAxis(np_all, arr.m, axis)))

\* prod with the masked elements filled with 0, the fill of sum
prod_fill0(arr, axis) ==
    LET f == filled(arr, <<0>>, "None", TRUE)
    IN  Ret(f.a, maskedarray_or_scalar(ReduceAxis(np_prod, f.out, axis),
                                       ReduceAxis(np_all, arr.m, axis)))

\* @implements(np.prod)
prod(arr, axis) ==
    LET f == filled(arr, <<1>>, "None", TRUE)
    IN  Ret(f.a, maskedarray_or_scalar(ReduceAxis(np_prod, f.out, axis),
                                       ReduceAxis(np_all, arr.m, axis)))

\* max with the masked elements filled with the other filler
max_minfill(arr, axis) ==
    LET f == filled(arr, NoValue, "min", TRUE)
    IN  IF Size(arr.d.shape) = 0 THEN Ret(f.a, Raise("ValueError"))
        ELSE Ret(f.a, maskedarray_or_scalar(ReduceAxis(np_max, f.out, axis),
                                            ReduceAxis(np_all, arr.m, axis)))

\* @implements(np.max): np.max raises on a zero-size array
max(arr, axis) ==
    LET f == filled(arr, NoValue, "max", TRUE)
    IN  IF Size(arr.d.shape) = 0 THEN Ret(f.a, Raise("ValueError"))
        ELSE Ret(f.a, maskedarray_or_scalar(ReduceAxis(np_max, f.out, axis),
                                            ReduceAxis(np_all, arr.m, axis)))

\* @implements(np.min)
min(arr, axis) ==
    LET f == filled(arr, NoValue, "min", TRUE)
    IN  IF Size(arr.d.shape) = 0 THEN Ret(f.a, Raise("ValueError"))
        ELSE Ret(f.a, maskedarray_or_scalar(ReduceAxis(np_min, f.out, axis),
                                            ReduceAxis(np_all, arr.m, axis)))

\* @implements(np.mean) with dtype=None, out=None: the sum of the 0-filled data
\* over the count; the float16 branches name an undefined variable, arr
mean(arr, axis) ==
    LET rcount == count(arr, axis)
        is_float16_result == arr.dt = "float16"
        f == filled(arr, <<0>>, "None", TRUE)
        ret == ReduceAxis(np_sum, f.out, axis)
        retmask == ReduceAxis(np_all, arr.m, axis)
        quot == NdArray(ret.shape,
                        [k \in 1..Len(ret.v) |-> true_divide(ret.v[k], rcount.v[k])])
    IN  IF is_float16_result THEN Ret(f.a, Raise("NameError"))
        ELSE Ret(f.a, maskedarray_or_scalar(quot, retmask))

\* @implements(np.sort)
sort(arr, axis) ==
    LET f == filled(arr, NoValue, "min", TRUE)
        result_data == AlongAxis(np_sort, f.out, axis)
        result_mask == AlongAxis(np_sort_bool, arr.m, axis)
    IN  Ret(f.a, Result("MaskedArray", result_data.shape, result_data.v, result_mask.v))

\* the ranks of argsort with those of the masked positions left as they are
MaskedRanks_kept(inds, lanemask) ==
    [i \in 1..Len(inds) |-> (CHOOSE k \in 1..Len(inds) : inds[k] = i - 1) - 1]

\* the ranks of argsort: put_along_axis(ranks, inds, arange(n)), then the ranks of
\* the masked positions overwritten with the min-filler of intp
MaskedRanks(inds, lanemask) ==
    [i \in 1..Len(inds) |->
        IF lanemask[i] THEN min_filler("intp")
        ELSE (CHOOSE k \in 1..Len(inds) : inds[k] = i - 1) - 1]

\* @implements(np.argsort)
argsort(arr, axis) ==
    LET f == filled(arr, NoValue, "min", TRUE)
        lanes == Lanes(arr.d.shape, axis)
        g(lane) == np_argsort(MaskedRanks(np_argsort(Gather(f.out.v, lane)),
                                          Gather(arr.m.v, lane)))
    IN  Ret(f.a, Result("ndarray", arr.d.shape, Scatter(f.out.v, lanes, g), <<>>))

\* MaskedArray.sort, in place; assigning into read-only data raises
sort_inplace(arr, axis) ==
    IF arr.m.shape # arr.d.shape THEN Ret(arr, Raise("IndexError"))
    ELSE IF ~arr.w THEN Ret(arr, Raise("ValueError"))
    ELSE LET filledd == PutMask(arr.d, arr.m, min_filler(arr.dt))
         IN  IF arr.d.shape = <<>> THEN Ret([arr EXCEPT !.d = filledd], Raise("AxisError"))
             ELSE
             Ret([arr EXCEPT !.d = AlongAxis(np_sort, filledd, axis),
                             !.m = AlongAxis(np_sort_bool, arr.m, axis)],
                 NoResult)

(***************************************************************************)
(* Construction.  The data given to the constructor is a number, the       *)
(* sentinel X, a list of such data or a plain ndarray; the dtype argument  *)
(* is absent, a dtype object or the name of one.                           *)
(***************************************************************************)
Scalar(dt, v) == Operand("scalar", dt, NdArray(<<>>, <<v>>), NdArray(<<>>, <<FALSE>>), TRUE)

List(items) == [kind |-> "list", items |-> items]

NoDtype == [form |-> "None", dt |-> "int"]

DtypeArgs == {NoDtype} \cup {[form |-> f, dt |-> dt] : f \in {"dtype", "str"}, dt \in {"int", "float64"}}

\* np.promote_types
promote_types(d1, d2) == IF d1 = d2 THEN d1 ELSE "float64"

\* np.result_type of one dtype or more
RECURSIVE result_type(_)
result_type(dtypes) ==
    IF Len(dtypes) = 1 THEN dtypes[1]
    ELSE promote_types(result_type(SubSeq(dtypes, 1, Len(dtypes) - 1)), dtypes[Len(dtypes)])

NotX(dt) == dt # "X"

\* replace_X.get_dtype: the dtype of the elements that are not X, "X" if none
RECURSIVE get_dtype(_, _)
get_dtype(data, cur_dtype) ==
    IF data.kind = "list"
    THEN LET dtypes == SelectSeq([i \in 1..Len(data.items) |->
                                     get_dtype(data.items[i], cur_dtype)], NotX)
         IN  IF Len(dtypes) = 0 THEN cur_dtype
             ELSE IF cur_dtype = "X" THEN result_type(dtypes)
             ELSE promote_types(result_type(dtypes), cur_dtype)
    ELSE IF data.kind = "X" THEN "X"
    ELSE data.dt

\* zip(*parts), every tuple made a list: as long as the shortest part, and
\* empty when there is no part
zip(parts) ==
    IF Len(parts) = 0 THEN <<>>
    ELSE LET n == CHOOSE k \in 0..2 :
                     /\ \A j \in 1..Len(parts) : k <= Len(parts[j])
                     /\ k = 2 \/ \E j \in 1..Len(parts) : k = Len(parts[j])
         IN  [k \in 1..n |-> List([j \in 1..Len(parts) |-> parts[j][k]])]

\* replace_X.replace: what the generator (or the pair) it returns yields
RECURSIVE replace(_, _)
replace(data, fill) ==
    IF data.kind = "X" THEN <<fill, Scalar("bool", TRUE)>>
    ELSE IF data.kind = "list"
    THEN zip([i \in 1..Len(data.items) |-> replace(data.items[i], fill)])
    ELSE IF data.kind = "ndarray"
    THEN <<data, Operand("ndarray", "bool",
                         NdArray(data.d.shape, [i \in 1..Len(data.d.v) |-> FALSE]),
                         NdArray(<<>>, <<FALSE>>), FALSE)>>
    ELSE <<data, Scalar("bool", FALSE)>>

\* replace_X(data, dtype)
replace_X(data, dtype) ==
    LET dt == IF dtype.form = "None" THEN get_dtype(data, "X") ELSE dtype.dt
    IN  IF dt = "X" THEN [err |-> "ValueError", out |-> <<>>]
        ELSE [err |-> NOERR, out |-> replace(data, Scalar(dt, 0))]

RECURSIVE Concat(_)
Concat(seqs) ==
    IF Len(seqs) = 0 THEN <<>>
    ELSE Concat(SubSeq(seqs, 1, Len(seqs) - 1)) \o seqs[Len(seqs)]

\* np.array of a list, a number or an array: the storage engine infers shape
\* and dtype and refuses a list whose items have different shapes
RECURSIVE np_array(_)
np_array(data) ==
    IF data.kind # "list"
    THEN [err |-> NOERR, dt |-> data.dt, shape |-> data.d.shape, v |-> data.d.v]
    ELSE IF Len(data.items) = 0
    THEN [err |-> NOERR, dt |-> "float64", shape |-> <<0>>, v |-> <<>>]
    ELSE LET subs == [i \in 1..Len(data.items) |-> np_array(data.items[i])]
         IN  IF \E i \in 1..Len(subs) : subs[i].err # NOERR \/ subs[i].shape # subs[1].shape
             THEN [err |-> "ValueError", dt |-> "int", shape |-> <<>>, v |-> <<>>]
             ELSE [err |-> NOERR,
                   dt |-> result_type([i \in 1..Len(subs) |-> subs[i].dt]),
                   shape |-> <<Len(subs)>> \o subs[1].shape,
                   v |-> Concat([i \in 1..Len(subs) |-> subs[i].v])]

\* the conversion of a value to dtype dt
astype(dt, x) ==
    IF dt = "int" THEN (IF x \in {NaN, NegInf, PosInf} THEN TypeMin ELSE Wrap("int", x))
    ELSE x

NoMask == NoOperand

Built(err, arr, viewed) == [err |-> err, a |-> arr, viewed |-> viewed]

NoArray == MaskedArray("int", NdArray(<<0>>, <<>>), NdArray(<<0>>, <<>>), TRUE)

\* MaskedArray.__init__(data, mask, dtype) with copy=False, for data that is
\* not masked: the array built and whether its _mask is the mask given
init(data, mask, dtype) ==
    IF data.kind = "X" /\ mask.kind = "None"
    THEN IF dtype.form = "None" THEN Built("ValueError", NoArray, FALSE)
         ELSE IF dtype.form = "str" THEN Built("AttributeError", NoArray, FALSE)
         ELSE Built(NOERR, MaskedArray(dtype.dt, NdArray(<<>>, <<0>>),
                                       NdArray(<<>>, <<TRUE>>), TRUE), FALSE)
    ELSE LET rx == IF mask.kind = "None" THEN replace_X(data, dtype)
                   ELSE [err |-> NOERR, out |-> <<data, mask>>]
         IN  IF rx.err # NOERR THEN Built(rx.err, NoArray, FALSE)
             ELSE IF Len(rx.out) # 2 THEN Built("ValueError", NoArray, FALSE)
             ELSE LET d == np_array(rx.out[1])
                      m == np_array(rx.out[2])
                      dt == IF rx.out[1].kind = "ndarray" \/ dtype.form = "None"
                            THEN d.dt ELSE dtype.dt
                      viewed == /\ rx.out[2].kind = "ndarray"
                                /\ m.shape = d.shape
                                /\ m.dt = "bool"
                                /\ mask.kind # "None"
                  IN  IF d.err # NOERR \/ m.err # NOERR
                      THEN Built("ValueError", NoArray, FALSE)
                      ELSE IF m.shape # d.shape /\ m.shape # <<>>
                      THEN Built("ValueError", NoArray, FALSE)
                      ELSE Built(NOERR,
                                 MaskedArray(dt,
                                     NdArray(d.shape,
                                             [i \in 1..Len(d.v) |-> astype(dt, d.v[i])]),
                                     BroadcastTo(NdArray(m.shape, m.v), d.shape), TRUE),
                                 viewed)

\* MaskedArray(arr.filled(fill_value), arr.mask)
roundtrip(arr, fill_value) ==
    LET f == filled(arr, <<fill_value>>, "None", FALSE)
        n == init(Operand("ndarray", arr.dt, f.out, NdArray(<<>>, <<FALSE>>), TRUE),
                  Operand("ndarray", "bool", arr.m, NdArray(<<>>, <<FALSE>>), FALSE),
                  NoDtype)
    IN  IF f.err # NOERR THEN Ret(f.a, Raise(f.err))
        ELSE IF n.err # NOERR THEN Ret(f.a, Raise(n.err))
        ELSE Ret(f.a, Result("MaskedArray", n.a.d.shape, n.a.d.v, n.a.m.v))

(***************************************************************************)
(* The operations that change an array in place.                           *)
(***************************************************************************)
\* whether the integer ind indexes the first axis of an array of this shape
InBounds(shape, ind) == Len(shape) > 0 /\ ind < shape[1]

\* x[ind] = value writing every element of x
SetAt_whole(x, ind, value) ==
    [x EXCEPT !.v = [p \in 1..Len(x.v) |-> value]]

\* x[ind] = value for an integer ind and a scalar value
SetAt(x, ind, value) ==
    LET rowlen == Size(x.shape) \div x.shape[1]
    IN  [x EXCEPT !.v = [p \in 1..Len(x.v) |->
                            IF (p - 1) \div rowlen = ind THEN value ELSE x.v[p]]]

\* MaskedArray.__setitem__(ind, val) for an integer ind and a scalar val
setitem(arr, ind, val) ==
    IF ~arr.w THEN Ret(arr, Raise("ValueError"))
    ELSE IF val.kind = "X"
    THEN IF ~InBounds(arr.m.shape, ind) THEN Ret(arr, Raise("IndexError"))
         ELSE Ret([arr EXCEPT !.m = SetAt(arr.m, ind, TRUE)], NoResult)
    ELSE IF ~InBounds(arr.d.shape, ind) THEN Ret(arr, Raise("IndexError"))
    ELSE LET d == SetAt(arr.d, ind, astype(arr.dt, val.d.v[1]))
             mv == IsMasked(val) /\ val.m.v[1]
         IN  IF ~InBounds(arr.m.shape, ind)
             THEN Ret([arr EXCEPT !.d = d], Raise("IndexError"))
             ELSE Ret([arr EXCEPT !.d = d, !.m = SetAt(arr.m, ind, mv)], NoResult)

\* the shape setter: the storage engine refuses a shape of another size
set_shape(arr, shp) ==
    IF Size(shp) # Len(arr.d.v) THEN Ret(arr, Raise("ValueError"))
    ELSE LET d == NdArray(shp, arr.d.v)
         IN  IF Size(shp) # Len(arr.m.v) THEN Ret([arr EXCEPT !.d = d], Raise("ValueError"))
             ELSE Ret([arr EXCEPT !.d = d, !.m = NdArray(shp, arr.m.v)], NoResult)

\* ndarray.resize(new_shape, refcheck) of an array that owns its data and that
\* refs other arrays reference: a change of size is refused when refcheck finds
\* a reference, the new elements are zero
ndarray_resize(x, new_shape, refcheck, refs, zero) ==
    IF Size(new_shape) # Len(x.v) /\ refcheck /\ refs > 0
    THEN [err |-> "ValueError", out |-> x]
    ELSE [err |-> NOERR,
          out |-> NdArray(new_shape, [i \in 1..Size(new_shape) |->
                                         IF i <= Len(x.v) THEN x.v[i] ELSE zero])]

\* MaskedArray.resize(new_shape, refcheck); maskrefs counts the views of _mask
\* that .mask gave out and that are still referenced
resize(arr, new_shape, refcheck, maskrefs) ==
    LET d == ndarray_resize(arr.d, new_shape, refcheck, 0, 0)
        m == ndarray_resize(arr.m, new_shape, refcheck, maskrefs, FALSE)
    IN  IF d.err # NOERR THEN Ret(arr, Raise(d.err))
        ELSE IF m.err # NOERR THEN Ret([arr EXCEPT !.d = d.out], Raise(m.err))
        ELSE Ret([arr EXCEPT !.d = d.out, !.m = m.out], NoResult)

(***************************************************************************)
(* The masked ufuncs.                                                      *)
(***************************************************************************)
\* the ufuncs of setup_ufuncs that the model calls
UniOps == {"negative", "absolute"}

BinOps == {"add", "multiply", "maximum", "minimum", "less"}

ReduceOps == {"add", "multiply", "maximum", "minimum"}

\* _Masked_BinOp.reduce_fill: ufunc.identity, or the filler of maximum/minimum
reduce_fill(ufunc, dt) ==
    CASE ufunc = "add" -> 0
      [] ufunc = "multiply" -> 1
      [] ufunc = "maximum" -> max_filler(dt)
      [] ufunc = "minimum" -> min_filler(dt)

\* ufunc.reduce of the storage engine over one slice
ufunc_reduce(ufunc, s) ==
    CASE ufunc = "add" -> np_sum(s)
      [] ufunc = "multiply" -> np_prod(s)
      [] ufunc = "maximum" -> np_max(s)
      [] ufunc = "minimum" -> np_min(s)

\* _Masked_BinOp.reduce without out, initial or where: da[ma] = fill writes
\* into the operand's data
reduce(ufunc, arr, axis) ==
    IF ~arr.w THEN Ret(arr, Raise("ValueError"))
    ELSE LET da == PutMask(arr.d, arr.m, reduce_fill(ufunc, arr.dt))
             f(s) == ufunc_reduce(ufunc, s)
         IN  IF ufunc \in {"maximum", "minimum"} /\ Size(arr.d.shape) = 0
             THEN Ret([arr EXCEPT !.d = da], Raise("ValueError"))
             ELSE Ret([arr EXCEPT !.d = da],
                      maskedarray_or_scalar(ReduceAxis(f, da, axis),
                                            ReduceAxis(np_all, arr.m, axis)))

\* is_duckscalar(result): the storage engine returns a scalar for 0-d operands
ScalarOrArray(data, mask) ==
    Result(IF data.shape = <<>> THEN "MaskedScalar" ELSE "MaskedArray",
           data.shape, data.v, BroadcastTo(mask, data.shape).v)

\* UniOp with the mask dropped
UniOp_nomask(ufunc, x) ==
    LET d == getdata(x)
    IN  ScalarOrArray(NdArray(d.shape, [i \in 1..Len(d.v) |-> UniKernel(ufunc, x.dt, d.v[i])]),
                      NdArray(<<>>, <<FALSE>>))

\* _Masked_UniOp.__call__ without out
UniOp(ufunc, x) ==
    LET d == getdata(x)
        m == getmask(x)
        result == NdArray(d.shape, [i \in 1..Len(d.v) |-> UniKernel(ufunc, x.dt, d.v[i])])
    IN  ScalarOrArray(result, m)

\* _Masked_UniOp.__call__ returns type(a)(result, m) with m the _mask of the
\* operand: whether the _mask of the array returned is that very array
UniOp_viewed(ufunc, x) ==
    LET r == UniOp(ufunc, x)
    IN  /\ r.kind = "MaskedArray"
        /\ IsMasked(x)
        /\ init(Operand("ndarray", x.dt, NdArray(r.shape, r.d), NdArray(<<>>, <<FALSE>>), TRUE),
                Operand("ndarray", "bool", getmask(x), NdArray(<<>>, <<FALSE>>), FALSE),
                NoDtype).viewed

\* logical_or with the masks combined by AND
logical_or_and(ma, mb) ==
    LET sh == BroadcastShape(ma.shape, mb.shape)
    IN  NdArray(sh, [i \in 1..Size(sh) |->
                        BroadcastTo(ma, sh).v[i] /\ BroadcastTo(mb, sh).v[i]])

\* np.logical_or(ma, mb), broadcast
logical_or(ma, mb) ==
    LET sh == BroadcastShape(ma.shape, mb.shape)
        A == BroadcastTo(ma, sh)
        B == BroadcastTo(mb, sh)
    IN  NdArray(sh, [i \in 1..Size(sh) |-> A.v[i] \/ B.v[i]])

\* self.f(da, db), broadcast
ufunc_call(ufunc, dt, da, db) ==
    LET sh == BroadcastShape(da.shape, db.shape)
        A == BroadcastTo(da, sh)
        B == BroadcastTo(db, sh)
    IN  NdArray(sh, [i \in 1..Size(sh) |-> BinKernel(ufunc, dt, A.v[i], B.v[i])])

\* _Masked_BinOp.__call__ without out or where: X is a masked 0 of the other
\* operand's dtype
BinOp(ufunc, x, y) ==
    LET da0 == getdata(x)
        db0 == getdata(y)
        da == IF x.kind = "X" THEN NdArray(<<>>, <<0>>) ELSE da0
        ma == IF x.kind = "X" THEN NdArray(<<>>, <<TRUE>>) ELSE getmask(x)
        db == IF y.kind = "X" THEN NdArray(<<>>, <<0>>) ELSE db0
        mb == IF y.kind = "X" THEN NdArray(<<>>, <<TRUE>>) ELSE getmask(y)
        dt == IF x.kind = "X" THEN y.dt ELSE x.dt
        m == logical_or(ma, mb)
        result == ufunc_call(ufunc, dt, da, db)
    IN  ScalarOrArray(result, m)

\* MaskedOperatorMixin._cmp_op: self is masked
cmp_op(self, other, op) ==
    LET db == IF other.kind = "X" THEN NdArray(<<>>, <<0>>) ELSE getdata(other)
        mb == IF other.kind = "X" THEN NdArray(<<>>, <<TRUE>>) ELSE getmask(other)
        data == ufunc_call(op, self.dt, self.d, db)
        mask == logical_or(self.m, mb)
    IN  maskedarray_or_scalar(data, mask)

\* x < y in Python: x.__lt__(y) when x is masked, else the reflected y.__gt__(x)
lt(x, y) == IF IsMasked(x) THEN cmp_op(x, y, "less") ELSE cmp_op(y, x, "greater")

\* the rows of the first operand of np.dot and the columns of the second
Rows(shape) ==
    IF Len(shape) = 1 THEN << [k \in 1..shape[1] |-> k] >>
    ELSE [i \in 1..shape[1] |-> [k \in 1..shape[2] |-> (i - 1) * shape[2] + k]]

Cols(shape) ==
    IF Len(shape) = 1 THEN << [k \in 1..shape[1] |-> k] >>
    ELSE [j \in 1..shape[2] |-> [k \in 1..shape[1] |-> (k - 1) * shape[2] + j]]

DotShape(s1, s2) ==
    (IF Len(s1) = 2 THEN <<s1[1]>> ELSE <<>>) \o (IF Len(s2) = 2 THEN <<s2[2]>> ELSE <<>>)

DotCompatible(s1, s2) ==
    /\ Len(s1) \in {1, 2}
    /\ Len(s2) \in {1, 2}
    /\ s1[Len(s1)] = s2[1]

\* np.dot of two plain arrays, with cell(x, y) the product and total(s) the sum
np_dot(x, y, cell(_, _), total(_)) ==
    LET rows == Rows(x.shape)
        cols == Cols(y.shape)
        nc == Len(cols)
    IN  NdArray(DotShape(x.shape, y.shape),
                [p \in 1..(Len(rows) * nc) |->
                    LET i == ((p - 1) \div nc) + 1
                        j == ((p - 1) % nc) + 1
                    IN  total([k \in 1..Len(rows[i]) |->
                                  cell(x.v[rows[i][k]], y.v[cols[j][k]])])])

np_any(s) == \E i \in 1..Len(s) : s[i]

\* ~mask
invert(m) == NdArray(m.shape, [i \in 1..Len(m.v) |-> ~m.v[i]])

\* _inplace_not
inplace_not(v) == invert(v)

\* cls(x): MaskedArray(x) with copy=False views a masked operand's data and mask
\* and gives a plain array a new all-False mask
AsMaskedView(x) ==
    IF IsMasked(x) THEN AsArray(x)
    ELSE MaskedArray(x.dt, x.d, NdArray(x.d.shape, [i \in 1..Len(x.d.v) |-> FALSE]), x.w)

\* dot with the mask of a result element set by any masked contributor
dot_anymasked(x, y) ==
    LET fa == filled(AsMaskedView(x), <<0>>, "None", TRUE)
        fb == filled(AsMaskedView(y), <<0>>, "None", TRUE)
        mul(u, v) == multiply(u, v)
        tot(s) == Wrap(x.dt, np_sum(s))
        either(u, v) == u \/ v
        result_data == np_dot(fa.out, fb.out, mul, tot)
        result_mask == np_dot(x.m, AsMaskedView(y).m, either, np_any)
    IN  [a |-> fa.a, b |-> [y EXCEPT !.d = fb.a.d],
         res |-> maskedarray_or_scalar(result_data, result_mask)]

\* @implements(np.dot) without out: the operand views are filled with 0 in place
dot(x, y) ==
    LET fa == filled(AsMaskedView(x), <<0>>, "None", TRUE)
        fb == filled(AsMaskedView(y), <<0>>, "None", TRUE)
        mul(u, v) == multiply(u, v)
        tot(s) == Wrap(x.dt, np_sum(s))
        both(u, v) == u /\ v
        result_data == np_dot(fa.out, fb.out, mul, tot)
        result_mask == inplace_not(np_dot(invert(x.m), invert(AsMaskedView(y).m), both, np_any))
    IN  [a |-> fa.a, b |-> [y EXCEPT !.d = fb.a.d],
         res |-> maskedarray_or_scalar(result_data, result_mask)]

\* np.inner of two plain arrays: the sum of products over the last axes
InnerShape(s1, s2) ==
    (IF Len(s1) = 2 THEN <<s1[1]>> ELSE <<>>) \o (IF Len(s2) = 2 THEN <<s2[1]>> ELSE <<>>)

InnerCompatible(s1, s2) ==
    /\ Len(s1) \in {1, 2}
    /\ Len(s2) \in {1, 2}
    /\ s1[Len(s1)] = s2[Len(s2)]

np_inner(x, y, cell(_, _), total(_)) ==
    LET rows == Rows(x.shape)
        cols == Rows(y.shape)
        nc == Len(cols)
    IN  NdArray(InnerShape(x.shape, y.shape),
                [p \in 1..(Len(rows) * nc) |->
                    LET i == ((p - 1) \div nc) + 1
                        j == ((p - 1) % nc) + 1
                    IN  total([k \in 1..Len(rows[i]) |->
                                  cell(x.v[rows[i][k]], y.v[cols[j][k]])])])

\* np.outer of two plain arrays, which it flattens
np_outer(x, y, cell(_, _)) ==
    LET nc == Len(y.v)
    IN  NdArray(<<Len(x.v), nc>>,
                [p \in 1..(Len(x.v) * nc) |->
                    cell(x.v[((p - 1) \div nc) + 1], y.v[((p - 1) % nc) + 1])])

\* @implements(np.inner)
inner(x, y) ==
    LET fa == filled(AsMaskedView(x), <<0>>, "None", TRUE)
        fb == filled(AsMaskedView(y), <<0>>, "None", TRUE)
        mul(u, v) == multiply(u, v)
        tot(s) == Wrap(x.dt, np_sum(s))
        both(u, v) == u /\ v
        result_data == np_inner(fa.out, fb.out, mul, tot)
        result_mask == inplace_not(np_inner(invert(x.m), invert(AsMaskedView(y).m), both, np_any))
    IN  [a |-> fa.a, b |-> [y EXCEPT !.d = fb.a.d],
         res |-> maskedarray_or_scalar(result_data, result_mask)]

\* @implements(np.outer) without out
outer(x, y) ==
    LET fa == filled(AsMaskedView(x), <<0>>, "None", TRUE)
        fb == filled(AsMaskedView(y), <<0>>, "None", TRUE)
        mul(u, v) == Wrap(x.dt, multiply(u, v))
        both(u, v) == u /\ v
        result_data == np_outer(fa.out, fb.out, mul)
        result_mask == inplace_not(np_outer(invert(x.m), invert(AsMaskedView(y).m), both))
    IN  [a |-> fa.a, b |-> [y EXCEPT !.d = fb.a.d],
         res |-> maskedarray_or_scalar(result_data, result_mask)]

(***************************************************************************)
(* Classes of operands.  MaskedArray and MaskedScalar, two families of     *)
(* subclasses of them (Sub.., Other..) that do not inherit from each other,*)
(* and the classes that are not masked.                                    *)
(***************************************************************************)
MaskedClasses ==
    {"MaskedArray", "MaskedScalar", "SubArray", "SubScalar", "OtherArray", "OtherScalar"}

PlainClasses == {"ndarray", "float", "MaskedX"}

\* the class a class derives from
Base(cls) ==
    CASE cls \in {"SubArray", "OtherArray"} -> "MaskedArray"
      [] cls \in {"SubScalar", "OtherScalar"} -> "MaskedScalar"
      [] OTHER -> "object"

issubclass(cls, k) == cls = k \/ Base(cls) = k

\* cls.ArrayType
ArrayType(cls) ==
    CASE cls \in {"MaskedArray", "MaskedScalar"} -> "MaskedArray"
      [] cls \in {"SubArray", "SubScalar"} -> "SubArray"
      [] cls \in {"OtherArray", "OtherScalar"} -> "OtherArray"

\* an object of a class; a list or tuple of arguments
Obj(cls) == [kind |-> "obj", cls |-> cls]

ListOf(S, n) == UNION {[1..k -> S] : k \in 0..n}

\* the argument lists of get_mask_cls: objects and lists of objects
ClsArgs ==
    LET leaves == {Obj(c) : c \in MaskedClasses \cup PlainClasses}
        lists == {List(l) : l \in ListOf(leaves, MaxListLen)}
    IN  ListOf(leaves \cup lists, MaxArgs)

RECURSIVE get_mask_cls_from(_, _, _)
\* the loop of get_mask_cls from args[i] on, cls being the class found so
\* far: the class returned, "None", or "TypeError" when it raises
get_mask_cls_from(args, i, cls) ==
    IF i > Len(args) THEN (IF cls = "None" THEN "None" ELSE ArrayType(cls))
    ELSE LET arg == args[i] IN
         IF arg.kind = "obj" /\ arg.cls \in MaskedClasses
         THEN LET acl == arg.cls
                  scalar(c) == issubclass(c, "MaskedScalar")
                  array(c) == issubclass(c, "MaskedArray")
              IN  IF cls = "None" \/ issubclass(acl, cls)
                  THEN get_mask_cls_from(args, i + 1, acl)
                  ELSE LET cls2 == IF scalar(cls) /\ array(acl) THEN ArrayType(cls) ELSE cls
                           acl2 == IF ~(scalar(cls) /\ array(acl)) /\ scalar(acl) /\ array(cls)
                                   THEN ArrayType(acl) ELSE acl
                       IN  IF issubclass(acl2, cls2) THEN get_mask_cls_from(args, i + 1, acl2)
                           ELSE IF ~issubclass(cls2, acl2) THEN "TypeError"
                           ELSE get_mask_cls_from(args, i + 1, cls2)
         ELSE IF arg.kind = "list"
         THEN LET tmpcls == get_mask_cls_from(arg.items, 1, "None")
              IN  IF tmpcls = "TypeError" THEN "TypeError"
                  ELSE IF tmpcls # "None" /\ (cls = "None" \/ issubclass(cls, tmpcls))
                  THEN get_mask_cls_from(args, i + 1, tmpcls)
                  ELSE get_mask_cls_from(args, i + 1, cls)
         ELSE get_mask_cls_from(args, i + 1, cls)

\* get_mask_cls(*args)
get_mask_cls(args) ==
    LET cls == get_mask_cls_from(args, 1, "None")
    IN  IF cls = "TypeError" THEN Raise("TypeError")
        ELSE IF cls = "None" THEN Result("None", <<>>, <<>>, <<>>)
        ELSE Result("type", <<>>, <<cls>>, <<>>)

(***************************************************************************)
(* Dispatch.                                                               *)
(***************************************************************************)
\* the functions registered by @implements that take one array and an axis
HANDLED_FUNCTIONS == {"sum", "prod", "mean", "max", "min", "sort", "argsort"}

Reductions == {"sum", "prod", "mean", "max", "min"}

\* MaskedOperatorMixin.__array_function__ for a call f(arr, axis)
array_function(func, arr, axis) ==
    CASE func = "sum" -> sum(arr, axis)
      [] func = "prod" -> prod(arr, axis)
      [] func = "mean" -> mean(arr, axis)
      [] func = "max" -> max(arr, axis)
      [] func = "min" -> min(arr, axis)
      [] func = "sort" -> sort(arr, axis)
      [] func = "argsort" -> argsort(arr, axis)
      [] OTHER -> Ret(arr, Raise("NotImplemented"))

\* MaskedOperatorMixin.__array_ufunc__ for ufunc(x) and ufunc(x, y)
array_ufunc_call1(ufunc, x) ==
    IF ufunc \notin UniOps THEN Raise("NotImplemented") ELSE UniOp(ufunc, x)

array_ufunc_call2(ufunc, x, y) ==
    IF ufunc \notin BinOps THEN Raise("NotImplemented") ELSE BinOp(ufunc, x, y)

\* MaskedOperatorMixin.__array_ufunc__ for ufunc.reduce(arr, axis)
array_ufunc_reduce(ufunc, arr, axis) ==
    IF ufunc \notin ReduceOps THEN Ret(arr, Raise("NotImplemented"))
    ELSE reduce(ufunc, arr, axis)

\* the functions registered with checked_args, and one that is not registered
CheckedFunctions == {"searchsorted", "corrcoef", "can_cast", "cov"}

DispatchFunctions == {"sum", "einsum_path"} \cup CheckedFunctions

\* the checked_args of a registration: None, a tuple of positions in args, or
\* the function cov_impl_check
checked_args_of(func) ==
    CASE func = "searchsorted" -> [form |-> "tuple", idx |-> {1}]
      [] func = "corrcoef" -> [form |-> "tuple", idx |-> {0, 1}]
      [] func = "can_cast" -> [form |-> "tuple", idx |-> {}]
      [] func = "cov" -> [form |-> "callable", idx |-> {}]
      [] OTHER -> [form |-> "None", idx |-> {}]

\* the classes of the arguments of a dispatched call: masked ones, the
\* sentinel, plain arrays, Python and numpy scalars, lists, foreign ducktypes
ArgClasses ==
    {"MaskedArray", "MaskedScalar", "SubArray", "MaskedX", "ndarray",
     "float", "float64", "list", "Duck"}

\* type(v)
TypeOf(v) == [kind |-> "type", cls |-> v.cls]

\* np.isscalar(element): true of numbers, never of a type object
np_isscalar(element) == element.kind = "obj" /\ element.cls \in {"float", "float64"}

\* MaskedOperatorMixin.known_types
known_types == {"MaskedArray", "MaskedScalar", "MaskedX"}

\* all types are known types or ndarray/scalar
check_types(types, known) ==
    \A t \in types : \/ \E k \in known : issubclass(t.cls, k)
                     \/ t.cls = "ndarray"
                     \/ np_isscalar(t)

\* the types numpy reports to __array_function__: those of the arguments
\* that define it
DispatchTypes(args) ==
    {TypeOf(args[i]) : i \in {j \in 1..Len(args) :
        args[j].cls \in {"MaskedArray", "MaskedScalar", "SubArray", "ndarray", "Duck"}}}

\* cov_impl_check(args, kwds, typs, knwn): adding the type of y to the tuple
\* is a TypeError
cov_impl_check(args, kwds) ==
    IF "y" \in kwds THEN [err |-> "TypeError", types |-> {}]
    ELSE [err |-> NOERR, types |-> {TypeOf(args[1])}]

\* MaskedOperatorMixin.__array_function__(func, types, args, kwargs) up to
\* the call of the implementation
array_function_check(func, types, args, kwds) ==
    IF func \notin HANDLED_FUNCTIONS \cup CheckedFunctions THEN Raise("NotImplemented")
    ELSE LET checked_args == checked_args_of(func)
             chk == IF checked_args.form = "callable" THEN cov_impl_check(args, kwds)
                    ELSE IF checked_args.form = "tuple"
                    THEN [err |-> NOERR,
                          types |-> {TypeOf(args[n + 1]) :
                                     n \in checked_args.idx \cap (0..(Len(args) - 1))}]
                    ELSE [err |-> NOERR, types |-> types]
         IN  IF chk.err # NOERR THEN Raise(chk.err)
             ELSE IF ~check_types(chk.types, known_types) THEN Raise("NotImplemented")
             ELSE Result("impl", <<>>, <<func>>, <<>>)

(***************************************************************************)
(* np.cov(m) with the defaults y=None, rowvar=True, ddof=None, no weights. *)
(***************************************************************************)
\* ndmin=2: a 1-d array is viewed as one row
AtLeast2d(shape) == IF Len(shape) = 1 THEN <<1, shape[1]>> ELSE shape

\* the flat index in shape <<r, c>> of the element at flat index p of its
\* transpose
TransposedFrom(shape, p) ==
    LET i == ((p - 1) % shape[1]) + 1
        j == ((p - 1) \div shape[1]) + 1
    IN  (i - 1) * shape[2] + j

\* x.T
Transpose(x) ==
    NdArray(<<x.shape[2], x.shape[1]>>,
            [p \in 1..Len(x.v) |-> x.v[TransposedFrom(x.shape, p)]])

\* the value of a quotient of the storage engine where it is exact
Quotient(q) ==
    IF q.num = NaN \/ q.num \in Infs THEN q.num
    ELSE IF q.den = 0
    THEN (IF q.num = 0 THEN NaN ELSE IF q.num > 0 THEN PosInf ELSE NegInf)
    ELSE IF q.num % q.den = 0 THEN q.num \div q.den
    ELSE q

\* the number of observations that rows i and j of a 2-d mask have in common
CommonCount(m, i, j) ==
    Cardinality({k \in 1..m.shape[2] :
                    ~m.v[(i - 1) * m.shape[2] + k] /\ ~m.v[(j - 1) * m.shape[2] + k]})

\* fact = w_sum - ddof is positive for every pair of rows
PositiveFact(m) ==
    \A i, j \in 1..m.shape[1] : CommonCount(m, i, j) - 1 > 0

\* c * (1 / fact) for a positive fact
Scaled(c, fact) ==
    IF c = 0 \/ c = NaN \/ c \in Infs THEN c ELSE Quotient(true_divide(c, fact))

\* @implements(np.cov).  X = MaskedArray(m, ndmin=2, dtype=dtype) views the
\* _data and the _mask of m (dtype is not applied to a masked m); the mean of
\* the rows fills the masked data with 0; X -= avg[:, None] computes into X,
\* which the storage engine refuses for integer data; np.dot(X, X.T.conj())
\* fills the masked data of X again; the result is c / fact, squeezed
cov(arr) ==
    LET shape == AtLeast2d(arr.d.shape)
        X0 == [arr EXCEPT !.d.shape = shape, !.m.shape = shape]
        back(x) == [x EXCEPT !.d.shape = arr.d.shape, !.m.shape = arr.m.shape]
        avg == mean(X0, <<1>>)
        row(p) == ((p - 1) \div shape[2]) + 1
    IN  IF avg.res.kind = "raise" THEN Ret(back(avg.a), avg.res)
        ELSE LET mask == NdArray(shape, [p \in 1..Len(X0.m.v) |->
                                            X0.m.v[p] \/ avg.res.m[row(p)]])
                 diff == NdArray(shape, [p \in 1..Len(X0.d.v) |->
                             add(avg.a.d.v[p],
                                 negative("float64", Quotient(avg.res.d[row(p)])))])
             IN  IF arr.dt = "int"
                 THEN Ret(back([avg.a EXCEPT !.m = mask]), Raise("TypeError"))
                 ELSE LET X1 == [X0 EXCEPT !.d = diff, !.m = mask]
                          X_T == Operand("MaskedArray", X1.dt, Transpose(X1.d),
                                         Transpose(X1.m), TRUE)
                          c == dot(AsOperand(X1), X_T)
                          n == shape[1]
                          data == [p \in 1..(n * n) |->
                                      Scaled(c.res.d[p],
                                             CommonCount(mask, ((p - 1) \div n) + 1,
                                                         ((p - 1) % n) + 1) - 1)]
                      IN  Ret(back(c.a),
                              Result("MaskedArray", IF n = 1 THEN <<>> ELSE <<n, n>>,
                                     data, c.res.m))

(***************************************************************************)
(* Calls with out.  The second operand and out travel together; a call     *)
(* that returns out itself has a result of kind "out".                     *)
(***************************************************************************)
OutArgs(y, out) == [kind |-> "out", y |-> y, out |-> out]

RetOut(arr, y, out, res) == [a |-> arr, b |-> OutArgs(y, out), res |-> res]

\* get_maskedout(out) for an out that is given
get_maskedout(out) == IF out.kind = "MaskedArray" THEN NOERR ELSE "Exception"

\* the storage engine computing data into out._data and mask into out._mask,
\* then maskedarray_or_scalar(data, mask, out) or "return out[0]": out is
\* returned; the storage engine raises when out has another shape
IntoOut(arr, y, out, r) ==
    IF r.kind = "raise" THEN RetOut(arr, y, out, r)
    ELSE IF r.shape # out.d.shape THEN RetOut(arr, y, out, Raise("ValueError"))
    ELSE LET o == [out EXCEPT
                      !.d = NdArray(r.shape, [i \in 1..Len(r.d) |-> Wrap(out.dt, r.d[i])]),
                      !.m = NdArray(r.shape, r.m)]
         IN  RetOut(arr, y, o, Result("out", r.shape, o.d.v, o.m.v))

\* sum, prod, max and min with out
reduction_out(func, arr, axis, out) ==
    IF get_maskedout(out) # NOERR THEN RetOut(arr, NoOperand, out, Raise("Exception"))
    ELSE LET r == array_function(func, arr, axis)
         IN  IntoOut(r.a, NoOperand, out, r.res)

\* _Masked_UniOp.__call__ with out
UniOp_out(ufunc, x, out) ==
    IF out.kind # "MaskedArray" THEN RetOut(AsArray(x), NoOperand, out, Raise("ValueError"))
    ELSE IntoOut(AsArray(x), NoOperand, out, UniOp(ufunc, x))

\* _Masked_BinOp.__call__ with out
BinOp_out(ufunc, x, y, out) ==
    IF out.kind # "MaskedArray" THEN RetOut(AsArray(x), y, out, Raise("ValueError"))
    ELSE IntoOut(AsArray(x), y, out, BinOp(ufunc, x, y))

\* _Masked_BinOp.reduce with out
reduce_out(ufunc, arr, axis, out) ==
    IF out.kind # "MaskedArray" THEN RetOut(arr, NoOperand, out, Raise("ValueError"))
    ELSE LET r == reduce(ufunc, arr, axis)
         IN  IntoOut(r.a, NoOperand, out, r.res)

\* @implements(np.dot) with out
dot_out(x, y, out) ==
    IF get_maskedout(out) # NOERR THEN RetOut(AsArray(x), y, out, Raise("Exception"))
    ELSE LET r == dot(x, y)
         IN  IntoOut(r.a, r.b, out, r.res)

\* the flat indices of the diagonal of a 2-d shape
Diagonal(shape) ==
    LET n == IF shape[1] < shape[2] THEN shape[1] ELSE shape[2]
    IN  [i \in 1..n |-> (i - 1) * shape[2] + i]

\* @implements(np.trace) without out: np.trace of a 2-d array is a scalar
trace(arr) ==
    LET f == filled(arr, <<0>>, "None", TRUE)
    IN  IF Len(arr.d.shape) # 2 THEN Ret(f.a, Raise("ValueError"))
        ELSE LET diag == Diagonal(arr.d.shape)
                 result == Wrap(arr.dt, np_sum(Gather(f.out.v, diag)))
                 mask_trace == np_sum(B2I(Gather(invert(arr.m).v, diag)))
             IN  Ret(f.a, Result("MaskedScalar", <<>>, <<result>>, <<mask_trace = 0>>))

\* @implements(np.trace) with out: both traces are computed into out._data,
\* that of the data and then that of ~mask; out._mask is not written, and
\* the result is made anew from out._data and mask_trace == 0
trace_out(arr, out) ==
    IF get_maskedout(out) # NOERR THEN RetOut(arr, NoOperand, out, Raise("Exception"))
    ELSE LET f == filled(arr, <<0>>, "None", TRUE)
         IN  IF Len(arr.d.shape) # 2 \/ out.d.shape # <<>>
             THEN RetOut(f.a, NoOperand, out, Raise("ValueError"))
             ELSE LET diag == Diagonal(arr.d.shape)
                      mask_trace == np_sum(B2I(Gather(invert(arr.m).v, diag)))
                      outdata == NdArray(<<>>, <<Wrap(out.dt, mask_trace)>>)
                  IN  RetOut(f.a, NoOperand, [out EXCEPT !.d = outdata],
                             Result("MaskedArray", <<>>, outdata.v, <<outdata.v[1] = 0>>))

\* @implements(np.concatenate) of two 1-d arrays along axis 0 with out: the
\* result is a new MaskedArray of out._data and out._mask
concatenate_out(x, y, out) ==
    IF get_maskedout(out) # NOERR THEN RetOut(AsArray(x), y, out, Raise("Exception"))
    ELSE LET xa == AsMaskedView(x)
             ya == AsMaskedView(y)
             sh == <<xa.d.shape[1] + ya.d.shape[1]>>
         IN  IF out.d.shape # sh THEN RetOut(AsArray(x), y, out, Raise("ValueError"))
             ELSE LET o == [out EXCEPT
                               !.d = NdArray(sh, [i \in 1..Len(xa.d.v \o ya.d.v) |->
                                                     Wrap(out.dt, (xa.d.v \o ya.d.v)[i])]),
                               !.m = NdArray(sh, xa.m.v \o ya.m.v)]
                  IN  RetOut(AsArray(x), y, o, Result("MaskedArray", sh, o.d.v, o.m.v))

(***************************************************************************)
(* np.var and np.std with dtype=None and out=None.  The arithmetic is      *)
(* exact: the deviations of a slice of n unmasked elements and sum S are   *)
(* kept as multiples of 1/n, their squares as multiples of 1/(n*n).        *)
(***************************************************************************)
\* n * (x - S/n) for a finite x and a finite S
Deviation(x, S, n) == n * x - S

\* the sum of finite squared deviations, exact
RECURSIVE sum_of_squares(_)
sum_of_squares(s) ==
    IF Len(s) = 0 THEN 0
    ELSE sum_of_squares(SubSeq(s, 1, Len(s) - 1)) + s[Len(s)]

\* var with the squared deviations of the masked elements left in the sum
var_nofill(arr, axis, ddof) ==
    LET sl == Slices(arr.d.shape, axis)
        rcount == count(arr, axis)
        dev2(i, S, n) == Deviation(arr.d.v[i], S, n) * Deviation(arr.d.v[i], S, n)
        ret(k) == np_sum([i \in 1..Len(sl[k]) |->
                     dev2(sl[k][i], np_sum(Gather(arr.d.v, sl[k])), rcount.v[k])])
        data == [k \in 1..Len(sl) |->
                    true_divide(ret(k), rcount.v[k] * rcount.v[k]
                                        * maximum(rcount.v[k] - ddof, 0))]
        mask == [k \in 1..Len(sl) |-> maximum(rcount.v[k] - ddof, 0) = 0]
    IN  Ret(arr, maskedarray_or_scalar(NdArray(OutShape(arr.d.shape, axis), data),
                                       NdArray(OutShape(arr.d.shape, axis), mask)))

\* @implements(np.var): arrmean is the sum of the 0-filled copy over the
\* count (0/0 is nan); x = a - arrmean, x * x computed into x, keeps the mask
\* of a; ret is the sum of x filled with 0, divided by max(count - ddof, 0);
\* the result is masked where that is 0.  A sum that is not finite makes
\* x * x nan at the unmasked element that is not finite.
var(arr, axis, ddof) ==
    LET sl == Slices(arr.d.shape, axis)
        rcount == count(arr, axis)
        f == filled(arr, <<0>>, "None", FALSE)
        S(k) == np_sum(Gather(f.out.v, sl[k]))
        dev2(i, k) == IF arr.m.v[i] THEN 0
                      ELSE IF S(k) = NaN \/ S(k) \in Infs THEN NaN
                      ELSE Deviation(arr.d.v[i], S(k), rcount.v[k])
                               * Deviation(arr.d.v[i], S(k), rcount.v[k])
        isnan(k) == \E i \in 1..Len(sl[k]) : dev2(sl[k][i], k) = NaN
        ret(k) == sum_of_squares([i \in 1..Len(sl[k]) |-> dev2(sl[k][i], k)])
        dof(k) == maximum(rcount.v[k] - ddof, 0)
        data == [k \in 1..Len(sl) |->
                    IF isnan(k) THEN true_divide(NaN, dof(k))
                    ELSE true_divide(ret(k), rcount.v[k] * rcount.v[k] * dof(k))]
        mask == [k \in 1..Len(sl) |-> dof(k) = 0]
    IN  Ret(arr, maskedarray_or_scalar(NdArray(OutShape(arr.d.shape, axis), data),
                                       NdArray(OutShape(arr.d.shape, axis), mask)))

\* np.sqrt of a quotient, kept as the root of it
np_sqrt(x) == [sqrt |-> x]

\* @implements(np.std): np.sqrt of the variance, which keeps the mask
std(arr, axis, ddof) ==
    LET r == var(arr, axis, ddof)
    IN  Ret(r.a, [r.res EXCEPT !.d = [k \in 1..Len(r.res.d) |-> np_sqrt(r.res.d[k])]])

(***************************************************************************)
(* np.unique with axis=None and no optional result.                        *)
(***************************************************************************)
\* ar.flatten(): a 1-d copy
flatten(arr) ==
    MaskedArray(arr.dt, NdArray(<<Len(arr.d.v)>>, arr.d.v),
                NdArray(<<Len(arr.m.v)>>, arr.m.v), TRUE)

\* x != y of the storage engine: nan differs from everything
not_equal(x, y) == x = NaN \/ y = NaN \/ x # y

\* MaskedScalar.__bool__
bool(d, m) == IF m THEN FALSE ELSE d

\* ar[mask]: the elements of ar where the boolean array mask is true
RECURSIVE Compress(_, _, _)
Compress(v, mask, n) ==
    IF n = 0 THEN <<>>
    ELSE IF mask[n] THEN Append(Compress(v, mask, n - 1), v[n])
    ELSE Compress(v, mask, n - 1)

\* _unique1d(ar): the copy is sorted in place; mask[1:] = aux[1:] != aux[:-1]
\* stores the truth value of every element of the masked comparison; all
\* but the first of the n_masked last elements are dropped
unique1d(arr) ==
    LET s == sort_inplace(flatten(arr), <<0>>)
        aux == s.a
        n == Len(aux.d.v)
        ne(i) == bool(not_equal(aux.d.v[i], aux.d.v[i - 1]), aux.m.v[i] \/ aux.m.v[i - 1])
        n_masked == np_sum(B2I(aux.m.v))
        mask == [i \in 1..n |->
                    IF n_masked > 0 /\ i > n - n_masked THEN i = n - n_masked + 1
                    ELSE IF i = 1 THEN TRUE
                    ELSE ne(i)]
        d == Compress(aux.d.v, mask, n)
    IN  IF s.res.kind = "raise" THEN Ret(arr, s.res)
        ELSE Ret(arr, Result("MaskedArray", <<Len(d)>>, d, Compress(aux.m.v, mask, n)))

\* @implements(np.unique) with axis=None
unique(arr) == unique1d(arr)

(***************************************************************************)
(* np.searchsorted(a, v, side) of two 1-d masked arrays.                   *)
(***************************************************************************)
\* np.searchsorted of x in a sorted 1-d array s
np_searchsorted(s, x, side) ==
    IF side = "left" THEN Cardinality({i \in 1..Len(s) : s[i] < x})
    ELSE Cardinality({i \in 1..Len(s) : s[i] <= x})

\* @implements(np.searchsorted): both arrays are filled with the
\* min-filler in place; for side='left' the indices of the masked queries
\* are set to maskleft, otherwise those of the unmasked queries that equal
\* the min-filler
searchsorted(arr, v, side) ==
    LET maskleft == Len(arr.d.v) - np_sum(B2I(arr.m.v))
        aval == filled(arr, NoValue, "min", TRUE)
        vval == filled(AsArray(v), NoValue, "min", TRUE)
        inds == [i \in 1..Len(vval.out.v) |-> np_searchsorted(aval.out.v, vval.out.v[i], side)]
        minval == min_filler(v.dt)
        fixed == [i \in 1..Len(inds) |->
                     IF side = "left"
                     THEN (IF v.m.v[i] THEN maskleft ELSE inds[i])
                     ELSE (IF vval.a.d.v[i] = minval /\ ~v.m.v[i] THEN maskleft ELSE inds[i])]
    IN  Ret2(aval.a, [v EXCEPT !.d = vval.a.d],
             Result("ndarray", v.d.shape, fixed, <<>>))

(***************************************************************************)
(* get_duck_cls of common.py.  DuckA and DuckB are the array types of two  *)
(* ducktypes that do not inherit from each other; known gives the          *)
(* known_types of each.                                                    *)
(***************************************************************************)
DuckClasses == {"DuckA", "DuckB"}

\* is_ndtype(arg): a ducktype, an ndarray or a numpy scalar
is_ndtype(arg) == arg.kind = "obj" /\ arg.cls \in DuckClasses \cup {"ndarray", "float64"}

RECURSIVE get_duck_cls_from(_, _, _, _)
\* the loop of get_duck_cls from args[i] on, cls being the class found so
\* far: the class returned, "None", or "TypeError" when it raises
get_duck_cls_from(args, i, cls, known) ==
    IF i > Len(args) THEN cls
    ELSE LET arg == args[i] IN
         IF is_ndtype(arg)
         THEN LET acl == IF arg.cls \in {"ndarray", "float64"} THEN "ndarray" ELSE arg.cls
              IN  IF cls = "None" \/ cls = "ndarray" \/ issubclass(acl, cls)
                  THEN get_duck_cls_from(args, i + 1, acl, known)
                  ELSE IF acl # "ndarray" /\ ~issubclass(cls, acl)
                  THEN IF cls \in known[acl] THEN get_duck_cls_from(args, i + 1, acl, known)
                       ELSE IF acl \in known[cls] THEN get_duck_cls_from(args, i + 1, cls, known)
                       ELSE "TypeError"
                  ELSE get_duck_cls_from(args, i + 1, cls, known)
         ELSE IF arg.kind = "list"
         THEN LET tmpcls == get_duck_cls_from(arg.items, 1, "None", known)
              IN  IF tmpcls = "TypeError" THEN "TypeError"
                  ELSE IF tmpcls # "None" /\ (cls = "None" \/ issubclass(cls, tmpcls))
                  THEN get_duck_cls_from(args, i + 1, tmpcls, known)
                  ELSE get_duck_cls_from(args, i + 1, cls, known)
         ELSE get_duck_cls_from(args, i + 1, cls, known)

\* get_duck_cls(*args) with base=None
get_duck_cls(args, known) ==
    LET cls == get_duck_cls_from(args, 1, "None", known)
    IN  IF cls = "TypeError" THEN Raise("TypeError")
        ELSE IF cls = "None" THEN Result("None", <<>>, <<>>, <<>>)
        ELSE Result("type", <<>>, <<cls>>, <<>>)

(***************************************************************************)
(* Calls whose out is the first operand itself, or a row or a column of    *)
(* it: out._data and out._mask are then (parts of) the operand's _data and *)
(* _mask, and every step reads the arrays as the steps before left them.   *)
(* region lists the flat indices of the operand that out views.  The       *)
(* storage engine computes a result before it writes it where out overlaps *)
(* an input.                                                               *)
(***************************************************************************)
\* the views of an array of this shape that have the shape of a reduction
\* over axis: its rows for axis 0, its columns for axis 1, and the 0-d views
\* of the elements of a 1-d array
OutRegions(shape, axis) ==
    IF axis = <<>> \/ Len(shape) = 0 THEN {}
    ELSE IF Len(shape) = 1 THEN {<<i>> : i \in 1..shape[1]}
    ELSE IF axis[1] = 0
    THEN {[k \in 1..shape[2] |-> (i - 1) * shape[2] + k] : i \in 1..shape[1]}
    ELSE {[k \in 1..shape[1] |-> (k - 1) * shape[2] + j] : j \in 1..shape[2]}

\* the view of all of an array
Whole(shape) == [k \in 1..Size(shape) |-> k]

\* the buffer of x after vals is written through the view region
Put(x, region, vals) ==
    [x EXCEPT !.v = [p \in 1..Len(x.v) |->
        IF \E k \in 1..Len(region) : region[k] = p
        THEN vals[CHOOSE k \in 1..Len(region) : region[k] = p]
        ELSE x.v[p]]]

\* the data the storage engine stores in an array of dtype dt
Cast(dt, v) == [i \in 1..Len(v) |-> Wrap(dt, v[i])]

\* "return out": the operand as the call leaves it, and out as its view
Aliased(arr, y, region, shape) ==
    Ret2(arr, y, Result("out", shape, Gather(arr.d.v, region), Gather(arr.m.v, region)))

\* _Masked_BinOp.__call__(x, y, out=(arr,)) with arr one of x and y:
\* np.logical_or(ma, mb, out=arr._mask), then self.f(da, db, out=arr._data)
BinOp_aliased(ufunc, arr, y, swap) ==
    LET dy == IF y.kind = "X" THEN NdArray(<<>>, <<0>>) ELSE getdata(y)
        my == IF y.kind = "X" THEN NdArray(<<>>, <<TRUE>>) ELSE getmask(y)
        m == IF swap THEN logical_or(my, arr.m) ELSE logical_or(arr.m, my)
        a1 == [arr EXCEPT !.m = Put(arr.m, Whole(arr.d.shape), m.v)]
        result == IF swap THEN ufunc_call(ufunc, arr.dt, dy, a1.d)
                  ELSE ufunc_call(ufunc, arr.dt, a1.d, dy)
        a2 == [a1 EXCEPT !.d = Put(a1.d, Whole(arr.d.shape), Cast(arr.dt, result.v))]
    IN  Aliased(a2, y, Whole(arr.d.shape), arr.d.shape)

\* reduce with the mask of the result written before the data is filled
reduce_aliased_maskfirst(ufunc, arr, axis, region) ==
    LET m == ReduceAxis(np_all, arr.m, axis)
        a1 == [arr EXCEPT !.m = Put(arr.m, region, m.v)]
        da == PutMask(a1.d, a1.m, reduce_fill(ufunc, arr.dt))
        f(s) == ufunc_reduce(ufunc, s)
        result == ReduceAxis(f, da, axis)
        a2 == [a1 EXCEPT !.d = Put(da, region, Cast(arr.dt, result.v))]
    IN  Aliased(a2, NoOperand, region, OutShape(arr.d.shape, axis))

\* _Masked_BinOp.reduce(arr, axis, out=(view of arr,)): da[ma] = fill, then
\* f.reduce(da, out=out._data), then logical_and.reduce(ma, out=out._mask)
reduce_aliased(ufunc, arr, axis, region) ==
    LET da == PutMask(arr.d, arr.m, reduce_fill(ufunc, arr.dt))
        f(s) == ufunc_reduce(ufunc, s)
        result == ReduceAxis(f, da, axis)
        a1 == [arr EXCEPT !.d = Put(da, region, Cast(arr.dt, result.v))]
        m == ReduceAxis(np_all, a1.m, axis)
        a2 == [a1 EXCEPT !.m = Put(a1.m, region, m.v)]
    IN  Aliased(a2, NoOperand, region, OutShape(arr.d.shape, axis))

\* ufunc.accumulate of the storage engine along one lane
ufunc_accumulate(ufunc, dt, s) ==
    [k \in 1..Len(s) |-> Wrap(dt, ufunc_reduce(ufunc, SubSeq(s, 1, k)))]

\* np.logical_and.accumulate and np.logical_or.accumulate along one lane
and_accumulate(s) == [k \in 1..Len(s) |-> \A j \in 1..k : s[j]]

or_accumulate(s) == [k \in 1..Len(s) |-> \E j \in 1..k : s[j]]

\* _Masked_BinOp.accumulate without out: da[ma] = fill writes into the operand
accumulate(ufunc, arr, axis) ==
    LET da == PutMask(arr.d, arr.m, reduce_fill(ufunc, arr.dt))
        f(s) == ufunc_accumulate(ufunc, arr.dt, s)
        result == AlongAxis(f, da, axis)
        m == AlongAxis(and_accumulate, arr.m, axis)
    IN  Ret([arr EXCEPT !.d = da], Result("MaskedArray", result.shape, result.v, m.v))

\* _Masked_BinOp.accumulate(arr, axis, out=(arr,))
accumulate_aliased(ufunc, arr, axis) ==
    LET da == PutMask(arr.d, arr.m, reduce_fill(ufunc, arr.dt))
        f(s) == ufunc_accumulate(ufunc, arr.dt, s)
        result == AlongAxis(f, da, axis)
        a1 == [arr EXCEPT !.d = Put(da, Whole(arr.d.shape), result.v)]
        m == AlongAxis(and_accumulate, a1.m, axis)
        a2 == [a1 EXCEPT !.m = Put(a1.m, Whole(arr.d.shape), m.v)]
    IN  Aliased(a2, NoOperand, Whole(arr.d.shape), arr.d.shape)

\* @implements(np.sum) with out a view of arr
sum_aliased(arr, axis, region) ==
    LET f == filled(arr, <<0>>, "None", TRUE)
        a1 == f.a
        result_data == ReduceAxis(np_sum, f.out, axis)
        a2 == [a1 EXCEPT !.d = Put(a1.d, region, Cast(arr.dt, result_data.v))]
        result_mask == ReduceAxis(np_all, a2.m, axis)
        a3 == [a2 EXCEPT !.m = Put(a2.m, region, result_mask.v)]
    IN  Aliased(a3, NoOperand, region, OutShape(arr.d.shape, axis))

\* @implements(np.cumsum) without out, along an axis
cumsum(arr, axis) ==
    LET f == filled(arr, <<0>>, "None", TRUE)
        cum(s) == ufunc_accumulate("add", arr.dt, s)
        result_data == AlongAxis(cum, f.out, axis)
        result_mask == inplace_not(AlongAxis(or_accumulate, invert(arr.m), axis))
    IN  Ret(f.a, Result("MaskedArray", arr.d.shape, result_data.v, result_mask.v))

\* @implements(np.cumsum) with out=arr: _inplace_not negates arr._mask in place
cumsum_aliased(arr, axis) ==
    LET f == filled(arr, <<0>>, "None", TRUE)
        a1 == f.a
        cum(s) == ufunc_accumulate("add", arr.dt, s)
        result_data == AlongAxis(cum, f.out, axis)
        a2 == [a1 EXCEPT !.d = Put(a1.d, Whole(arr.d.shape), result_data.v)]
        acc == AlongAxis(or_accumulate, invert(a2.m), axis)
        a3 == [a2 EXCEPT !.m = Put(a2.m, Whole(arr.d.shape), acc.v)]
        a4 == [a3 EXCEPT !.m = inplace_not(a3.m)]
    IN  Aliased(a4, NoOperand, Whole(arr.d.shape), arr.d.shape)

\* @implements(np.dot) with out=arr, the first operand: cls(arr) views its data
\* and mask
dot_aliased(arr, y) ==
    LET fa == filled(arr, <<0>>, "None", TRUE)
        fb == filled(AsMaskedView(y), <<0>>, "None", TRUE)
        a1 == fa.a
        y1 == [y EXCEPT !.d = fb.a.d]
        mul(u, v) == multiply(u, v)
        tot(s) == Wrap(arr.dt, np_sum(s))
        both(u, v) == u /\ v
        result_data == np_dot(fa.out, fb.out, mul, tot)
        a2 == [a1 EXCEPT !.d = Put(a1.d, Whole(arr.d.shape), result_data.v)]
        result_mask == np_dot(invert(a2.m), invert(AsMaskedView(y).m), both, np_any)
        a3 == [a2 EXCEPT !.m = Put(a2.m, Whole(arr.d.shape), result_mask.v)]
        a4 == [a3 EXCEPT !.m = inplace_not(a3.m)]
    IN  Aliased(a4, y1, Whole(arr.d.shape), arr.d.shape)

(***************************************************************************)
(* lexsort.                                                                *)
(***************************************************************************)
\* np.lexsort of 1-d keys: the 0-based indices ordered by the last key, ties
\* by the key before it and so on, and last by position
np_lexsort(keys) ==
    LET n == Len(keys[1])
        before(i, j) ==
            \E q \in 1..Len(keys) :
                /\ keys[q][i] < keys[q][j]
                /\ \A r \in (q + 1)..Len(keys) : keys[r][i] = keys[r][j]
        rank(i) == Cardinality({j \in 1..n : before(j, i) \/ (~before(i, j) /\ j < i)})
    IN  [k \in 1..n |-> (CHOOSE i \in 1..n : rank(i) = k - 1) - 1]

\* @implements(np.lexsort): every key is split into a data key and a mask key
lexsort(keys) ==
    LET split == [q \in 1..(2 * Len(keys)) |->
                     IF q % 2 = 1 THEN keys[(q + 1) \div 2].d.v
                     ELSE B2I(keys[q \div 2].m.v)]
    IN  Result("ndarray", keys[1].d.shape, np_lexsort(split), <<>>)

(***************************************************************************)
(* MaskedArray(data, mask) for a data that is a MaskedArray.               *)
(***************************************************************************)
\* self._mask |= np.array(mask, copy=False)
ior(m, mask) ==
    [m EXCEPT !.v = [i \in 1..Len(m.v) |-> m.v[i] \/ BroadcastTo(mask, m.shape).v[i]]]

\* MaskedArray.__init__(data, mask) with copy=False for a masked data and a
\* mask: np.array(data._mask, copy=False) is data._mask itself, which |= then
\* writes; the data is copied by astype(None), to the default float type.
\* a is the source as the call leaves it, n the array built
init_masked(data, mask) ==
    LET m == ior(data.m, mask)
        d == NdArray(data.d.shape, [i \in 1..Len(data.d.v) |-> astype("float64", data.d.v[i])])
    IN  [a |-> [data EXCEPT !.m = m], n |-> MaskedArray("float64", d, m, TRUE)]

(***************************************************************************)
(* argmax and argmin.                                                      *)
(***************************************************************************)
\* np.argmax and np.argmin of one slice: the 0-based position of the first
\* element that is the extreme (the first nan when there is one)
np_argmax(s) == (CHOOSE i \in 1..Len(s) :
                    s[i] = np_max(s) /\ \A j \in 1..(i - 1) : s[j] # np_max(s)) - 1

np_argmin(s) == (CHOOSE i \in 1..Len(s) :
                    s[i] = np_min(s) /\ \A j \in 1..(i - 1) : s[j] # np_min(s)) - 1

\* @implements(np.argmax) with out=None
argmax(arr, axis) ==
    LET f == filled(arr, NoValue, "max", TRUE)
    IN  IF Size(arr.d.shape) = 0 THEN Ret(f.a, Raise("ValueError"))
        ELSE Ret(f.a, Result("ndarray", OutShape(arr.d.shape, axis),
                             ReduceAxis(np_argmax, f.out, axis).v, <<>>))

\* @implements(np.argmin) with out=None
argmin(arr, axis) ==
    LET f == filled(arr, NoValue, "min", TRUE)
    IN  IF Size(arr.d.shape) = 0 THEN Ret(f.a, Raise("ValueError"))
        ELSE Ret(f.a, Result("ndarray", OutShape(arr.d.shape, axis),
                             ReduceAxis(np_argmin, f.out, axis).v, <<>>))

(***************************************************************************)
(* The state: the array a; the call in progress: its name, axis and        *)
(* operand order (call), its operands as they were when it began (arg,     *)
(* argb), its second operand as the call leaves it (b) and what it         *)
(* returned (res).                                                         *)
(***************************************************************************)
VARIABLES a, b, pc, call, arg, argb, res, views

vars == <<a, b, pc, call, arg, argb, res, views>>

NoCall == [f |-> "None", axis |-> <<>>, swap |-> FALSE]

Init ==
    /\ a \in Arrays(MaxSize)
    /\ b = NoOperand
    /\ pc = "idle"
    /\ call = NoCall
    /\ arg = NoArray
    /\ argb = NoOperand
    /\ res = NoResult
    /\ views = 0

\* a call f that returns r; y is its second operand
Do2(f, axis, swap, y, r) ==
    /\ pc = "idle"
    /\ pc' = "done"
    /\ call' = [f |-> f, axis |-> axis, swap |-> swap]
    /\ arg' = a
    /\ argb' = y
    /\ a' = r.a
    /\ b' = r.b
    /\ res' = r.res
    /\ UNCHANGED views

Do(f, axis, r) == Do2(f, axis, FALSE, NoOperand, r)

\* np.sum(a, axis), np.prod, np.mean, np.max, np.min
CallReduction ==
    \E func \in Reductions, axis \in Axes(a.d.shape) :
        Do(func, axis, array_function(func, a, axis))

\* np.add.reduce(a, axis), np.multiply.reduce, np.maximum.reduce, np.minimum.reduce
CallUfuncReduce ==
    \E ufunc \in ReduceOps, axis \in Axes(a.d.shape) :
        Do(ufunc, axis, array_ufunc_reduce(ufunc, a, axis))

\* np.sort(a, axis), np.argsort(a, axis)
CallSort ==
    \E func \in {"sort", "argsort"}, axis \in IntAxes(a.d.shape) :
        Do(func, axis, array_function(func, a, axis))

\* a.sort(axis); the last axis for a 0-d array
SortInPlace ==
    \E axis \in (IF a.d.shape = <<>> THEN {<<0 - 1>>} ELSE IntAxes(a.d.shape)) :
        Do("a.sort", axis, sort_inplace(a, axis))

\* the second operands of an elementwise operation on arr
SecondOperands(arr) ==
    MaskedOperands(arr.dt, {arr.d.shape, <<>>})
        \cup PlainOperands(arr.dt, {arr.d.shape, <<>>}) \cup {X}

\* np.negative(a), np.absolute(a)
CallUniOp ==
    \E ufunc \in UniOps :
        Do(ufunc, <<>>, Ret(a, array_ufunc_call1(ufunc, AsOperand(a))))

\* np.add(a, y), np.add(y, a), np.less(a, y), np.less(y, a)
CallBinOp ==
    /\ Size(a.d.shape) <= MaxBinSize
    /\ \E ufunc \in {"add", "less"}, y \in SecondOperands(a), swap \in BOOLEAN :
        Do2(ufunc, <<>>, swap, y,
            Ret2(a, y, IF swap THEN array_ufunc_call2(ufunc, y, AsOperand(a))
                       ELSE array_ufunc_call2(ufunc, AsOperand(a), y)))

\* a < y, y < a
CallCmp ==
    /\ Size(a.d.shape) <= MaxBinSize
    /\ \E y \in SecondOperands(a), swap \in BOOLEAN :
        Do2("lt", <<>>, swap, y,
            Ret2(a, y, IF swap THEN lt(y, AsOperand(a)) ELSE lt(AsOperand(a), y)))

\* the second operands of np.dot(arr, y)
DotOperands(arr) ==
    LET shapes == {sh \in Shapes(MaxBinSize) : DotCompatible(arr.d.shape, sh)}
    IN  MaskedOperands(arr.dt, shapes) \cup PlainOperands(arr.dt, shapes)

\* np.dot(a, y)
CallDot ==
    /\ Size(a.d.shape) <= MaxBinSize
    /\ \E y \in DotOperands(a) :
        Do2("dot", <<>>, FALSE, y, dot(AsOperand(a), y))

\* the second operands of np.inner(arr, y)
InnerOperands(arr) ==
    LET shapes == {sh \in Shapes(MaxBinSize) : InnerCompatible(arr.d.shape, sh)}
    IN  MaskedOperands(arr.dt, shapes) \cup PlainOperands(arr.dt, shapes)

\* np.inner(a, y)
CallInner ==
    /\ Size(a.d.shape) <= MaxBinSize
    /\ \E y \in InnerOperands(a) :
        Do2("inner", <<>>, FALSE, y, inner(AsOperand(a), y))

\* the second operands of np.outer(arr, y)
OuterOperands(arr) ==
    LET shapes == {sh \in Shapes(MaxBinSize) : Len(sh) = 1}
    IN  MaskedOperands(arr.dt, shapes) \cup PlainOperands(arr.dt, shapes)

\* np.outer(a, y)
CallOuter ==
    /\ Size(a.d.shape) <= MaxBinSize
    /\ \E y \in OuterOperands(a) :
        Do2("outer", <<>>, FALSE, y, outer(AsOperand(a), y))

\* the data of the literals: the sentinel and a number of each dtype
LitLeaves == {X, Scalar("int", TypeMin), Scalar("float64", 1)}

\* the literals of at most n elements: a leaf, a list, a list of lists
Literals(n) ==
    LitLeaves
        \cup UNION {{List(s) : s \in [1..k -> LitLeaves]} : k \in 0..n}
        \cup UNION {{List([i \in 1..sh[1] |-> List(rows[i])]) :
                       rows \in [1..sh[1] -> [1..sh[2] -> LitLeaves]]} :
                   sh \in {x \in Shapes(n) : Len(x) = 2}}

\* a = MaskedArray(lit, dtype=dtype); a failed construction leaves no array
Construct ==
    /\ pc = "new"
    /\ \E lit \in Literals(MaxSize), dtype \in DtypeArgs :
         LET n == init(lit, NoMask, dtype)
         IN  /\ pc' = "done"
             /\ call' = [f |-> "MaskedArray", axis |-> <<>>, swap |-> FALSE]
             /\ arg' = a
             /\ argb' = [lit |-> lit, dtype |-> dtype]
             /\ a' = n.a
             /\ b' = NoOperand
             /\ res' = IF n.err = NOERR THEN NoResult ELSE Raise(n.err)
             /\ views' = 0

\* the fill values of the round trip
FillVals(dt) == Vals(dt) \cup HiddenVals(dt)

\* MaskedArray(a.filled(f), a.mask)
RoundTrip ==
    \E f \in FillVals(a.dt) :
        Do2("roundtrip", <<>>, FALSE, Scalar(a.dt, f), roundtrip(a, f))

\* a[ind] = val
SetItem ==
    \E ind \in 0..(MaxSize - 1),
       val \in {X} \cup MaskedOperands(a.dt, {<<>>}) \cup PlainOperands(a.dt, {<<>>}) :
        Do2("setitem", <<ind>>, FALSE, val, setitem(a, ind, val))

\* a.shape = shp
SetShape ==
    /\ pc = "idle"
    /\ \E shp \in Shapes(MaxSize) \cup {<<>>} :
        Do2("shape", shp, FALSE, NoOperand, set_shape(a, shp))

\* a.resize(new_shape, refcheck)
Resize ==
    /\ pc = "idle"
    /\ \E new_shape \in Shapes(MaxSize) \cup {<<>>}, refcheck \in BOOLEAN :
        Do2("resize", new_shape, ~refcheck, NoOperand, resize(a, new_shape, refcheck, views))

\* m = a.mask: the caller keeps one more view of _mask
TakeMaskView ==
    /\ pc = "idle"
    /\ views < MaxViews
    /\ views' = views + 1
    /\ UNCHANGED <<a, b, pc, call, arg, argb, res>>

\* the caller drops a view of _mask
DropMaskView ==
    /\ pc = "idle"
    /\ views > 0
    /\ views' = views - 1
    /\ UNCHANGED <<a, b, pc, call, arg, argb, res>>

\* the caller drops the result
Return ==
    /\ pc = "done"
    /\ pc' = IF call.f = "MaskedArray" /\ res.kind = "raise" THEN "new" ELSE "idle"
    /\ call' = NoCall
    /\ arg' = NoArray
    /\ argb' = NoOperand
    /\ b' = NoOperand
    /\ res' = NoResult
    /\ UNCHANGED <<a, views>>

\* the outs of a call on arr: masked arrays of the shape sh of its result
\* and of another shape, with any mask, and a plain array
OutOperands(arr, sh) ==
    LET shapes == {sh, <<1>>}
    IN  {Operand("MaskedArray", o.dt, o.d, o.m, TRUE) : o \in MaskedOperands(arr.dt, shapes)}
            \cup {Operand("ndarray", arr.dt, NdArray(sh, [i \in 1..Size(sh) |-> 0]),
                          NdArray(<<>>, <<FALSE>>), TRUE)}

\* np.sum(a, axis, out=out), np.prod, np.max, np.min
CallReductionOut ==
    /\ Size(a.d.shape) <= MaxBinSize
    /\ \E func \in {"sum", "prod", "max", "min"}, axis \in Axes(a.d.shape) :
        \E out \in OutOperands(a, OutShape(a.d.shape, axis)) :
            Do2(func, axis, FALSE, OutArgs(NoOperand, out), reduction_out(func, a, axis, out))

\* np.add.reduce(a, axis, out=out) and the other reductions of ufuncs
CallUfuncReduceOut ==
    /\ Size(a.d.shape) <= MaxBinSize
    /\ \E ufunc \in ReduceOps, axis \in Axes(a.d.shape) :
        \E out \in OutOperands(a, OutShape(a.d.shape, axis)) :
            Do2(ufunc, axis, FALSE, OutArgs(NoOperand, out), reduce_out(ufunc, a, axis, out))

\* np.negative(a, out=out), np.absolute(a, out=out)
CallUniOpOut ==
    /\ Size(a.d.shape) <= MaxBinSize
    /\ \E ufunc \in UniOps, out \in OutOperands(a, a.d.shape) :
        Do2(ufunc, <<>>, FALSE, OutArgs(NoOperand, out), UniOp_out(ufunc, AsOperand(a), out))

\* np.add(a, y, out=out)
CallBinOpOut ==
    /\ Size(a.d.shape) <= MaxBinSize
    /\ \E y \in SecondOperands(a), out \in OutOperands(a, a.d.shape) :
        Do2("add", <<>>, FALSE, OutArgs(y, out), BinOp_out("add", AsOperand(a), y, out))

\* np.dot(a, y, out=out)
CallDotOut ==
    /\ Size(a.d.shape) <= MaxBinSize
    /\ \E y \in DotOperands(a) :
        \E out \in OutOperands(a, DotShape(a.d.shape, y.d.shape)) :
            Do2("dot", <<>>, FALSE, OutArgs(y, out), dot_out(AsOperand(a), y, out))

\* np.trace(a, out=out)
CallTraceOut ==
    \E out \in OutOperands(a, <<>>) :
        Do2("trace", <<>>, FALSE, OutArgs(NoOperand, out), trace_out(a, out))

\* np.concatenate((a, y), out=out) of 1-d arrays
CallConcatenateOut ==
    /\ Len(a.d.shape) = 1
    /\ Size(a.d.shape) <= MaxBinSize
    /\ \E y \in MaskedOperands(a.dt, {<<1>>}) \cup PlainOperands(a.dt, {<<1>>}) :
        \E out \in OutOperands(a, <<a.d.shape[1] + 1>>) :
            Do2("concatenate", <<>>, FALSE, OutArgs(y, out), concatenate_out(AsOperand(a), y, out))

\* r[ind] = val on the array r that the call returned; the masks of the
\* binary operations and of the reductions are new arrays of the storage
\* engine, the mask of a unary operation is as UniOp_viewed tells
AssignResult ==
    /\ pc = "done"
    /\ res.kind = "MaskedArray"
    /\ call.f # "setitem"
    /\ \E ind \in 0..(MaxSize - 1),
          val \in {X} \cup MaskedOperands(arg.dt, {<<>>}) \cup PlainOperands(arg.dt, {<<>>}) :
        LET r == MaskedArray(arg.dt, NdArray(res.shape, res.d), NdArray(res.shape, res.m), TRUE)
            s == setitem(r, ind, val)
            viewed == call.f \in UniOps /\ UniOp_viewed(call.f, AsOperand(arg))
        IN  /\ call.f \in {"less", "lt"} => val = X
            /\ call' = [f |-> "setitem", axis |-> <<ind>>, swap |-> FALSE, of |-> call.f]
            /\ arg' = a
            /\ argb' = val
            /\ res' = Result("MaskedArray", s.a.d.shape, s.a.d.v, s.a.m.v)
            /\ a' = IF viewed THEN [a EXCEPT !.m = s.a.m] ELSE a
            /\ UNCHANGED <<b, pc, views>>

\* np.cov(a) of an array of at most two dimensions with observations; for
\* float64 data, with no pair of rows of zero degrees of freedom
CallCov ==
    /\ Size(a.d.shape) > 0
    /\ a.dt = "float64" => PositiveFact(NdArray(AtLeast2d(a.m.shape), a.m.v))
    /\ Do("cov", <<>>, cov(a))

\* a.filled(fill_value, minmax, view): fill_value given or not, minmax None,
\* 'max' or 'min'
CallFilled ==
    \E fill_value \in {NoValue} \cup {<<v>> : v \in FillVals(a.dt)},
       minmax \in {"None", "max", "min"}, view \in BOOLEAN :
        LET f == filled(a, fill_value, minmax, view)
            y == [kind |-> "minmax", minmax |-> minmax]
        IN  Do2("filled", fill_value, view, y,
                Ret2(f.a, y, IF f.err # NOERR THEN Raise(f.err)
                             ELSE Result("ndarray", f.out.shape, f.out.v, <<>>)))

\* get_mask_cls(*args)
CallGetMaskCls ==
    \E args \in ClsArgs :
        /\ pc = "idle"
        /\ pc' = "done"
        /\ call' = [f |-> "get_mask_cls", axis |-> <<>>, swap |-> FALSE]
        /\ argb' = List(args)
        /\ res' = get_mask_cls(args)
        /\ UNCHANGED <<a, b, arg, views>>

\* np.<func>(*args, **kwds) with a masked array or scalar among args: the
\* call of its __array_function__
CallArrayFunction ==
    \E func \in DispatchFunctions,
       args \in ListOf({Obj(c) : c \in ArgClasses}, MaxArgs),
       kwds \in {{}, {"y"}} :
        /\ pc = "idle"
        /\ \E i \in 1..Len(args) : args[i].cls \in {"MaskedArray", "MaskedScalar", "SubArray"}
        /\ kwds = {"y"} => func = "cov"
        /\ pc' = "done"
        /\ call' = [f |-> "__array_function__", axis |-> <<>>, swap |-> FALSE]
        /\ argb' = [kind |-> "call", func |-> func, items |-> args, kwds |-> kwds]
        /\ res' = array_function_check(func, DispatchTypes(args), args, kwds)
        /\ UNCHANGED <<a, b, arg, views>>

\* the reductions, the sorts, dot and the round trip through filled
Next ==
    \/ CallReduction
    \/ CallUfuncReduce
    \/ CallSort
    \/ SortInPlace
    \/ CallDot
    \/ RoundTrip
    \/ Return

Spec == Init /\ [][Next]_vars

\* the elementwise operations
NextElem ==
    \/ CallUniOp
    \/ CallBinOp
    \/ CallCmp
    \/ Return

SpecElem == Init /\ [][NextElem]_vars

\* linear algebra
NextLin ==
    \/ CallDot
    \/ CallInner
    \/ CallOuter
    \/ Return

SpecLin == Init /\ [][NextLin]_vars

\* the calls with out
NextOut ==
    \/ CallReductionOut
    \/ CallUfuncReduceOut
    \/ CallUniOpOut
    \/ CallBinOpOut
    \/ CallDotOut
    \/ CallTraceOut
    \/ CallConcatenateOut
    \/ Return

SpecOut == Init /\ [][NextOut]_vars

\* the elementwise operations and the reductions, and assignment into
\* what they return
NextFresh ==
    \/ CallUniOp
    \/ CallBinOp
    \/ CallCmp
    \/ CallReduction
    \/ CallUfuncReduce
    \/ AssignResult
    \/ Return

SpecFresh == Init /\ [][NextFresh]_vars

\* the calls that are to leave their operands alone
NextPure ==
    \/ CallReduction
    \/ CallUfuncReduce
    \/ CallSort
    \/ CallDot
    \/ CallCov
    \/ Return

SpecPure == Init /\ [][NextPure]_vars

\* index assignment
NextAssign ==
    \/ SetItem
    \/ Return

SpecAssign == Init /\ [][NextAssign]_vars

\* filling
NextFilled ==
    \/ CallFilled
    \/ Return

SpecFilled == Init /\ [][NextFilled]_vars

\* no array: the helper functions
InitHelpers ==
    /\ a = NoArray
    /\ b = NoOperand
    /\ pc = "idle"
    /\ call = NoCall
    /\ arg = NoArray
    /\ argb = NoOperand
    /\ res = NoResult
    /\ views = 0

\* the class of a result
NextCls ==
    \/ CallGetMaskCls
    \/ Return

SpecCls == InitHelpers /\ [][NextCls]_vars

\* the dispatch of numpy functions
NextDispatch ==
    \/ CallArrayFunction
    \/ Return

SpecDispatch == InitHelpers /\ [][NextDispatch]_vars

\* no array yet
InitLife ==
    /\ a = NoArray
    /\ b = NoOperand
    /\ pc = "new"
    /\ call = NoCall
    /\ arg = NoArray
    /\ argb = NoOperand
    /\ res = NoResult
    /\ views = 0

\* the life of one array
NextLife ==
    \/ Construct
    \/ SetItem
    \/ SetShape
    \/ SortInPlace
    \/ Resize
    \/ TakeMaskView
    \/ DropMaskView
    \/ Return

SpecLife == InitLife /\ [][NextLife]_vars

\* np.var(a, axis, ddof=ddof), np.std(a, axis, ddof=ddof)
CallVar ==
    \E func \in {"var", "std"}, axis \in Axes(a.d.shape), ddof \in 0..2 :
        LET y == [kind |-> "ddof", ddof |-> ddof]
            r == IF func = "var" THEN var(a, axis, ddof) ELSE std(a, axis, ddof)
        IN  Do2(func, axis, FALSE, y, Ret2(r.a, y, r.res))

\* variance and standard deviation
NextVar ==
    \/ CallVar
    \/ Return

SpecVar == Init /\ [][NextVar]_vars

\* np.unique(a)
CallUnique ==
    Do("unique", <<>>, unique(a))

\* whether the 1-d array arr, filled with the min-filler, is sorted
SortedTarget(arr) ==
    /\ Len(arr.d.shape) = 1
    /\ LET s == PutMask(arr.d, arr.m, min_filler(arr.dt)).v
       IN  \A i \in 1..(Len(s) - 1) : s[i] <= s[i + 1] /\ (arr.m.v[i] => arr.m.v[i + 1])

\* the queries: 1-d masked arrays of the dtype of arr
Queries(arr) ==
    {AsOperand(q) : q \in UNION {ArraysOf(arr.dt, <<k>>) : k \in 1..MaxBinSize}}

\* np.searchsorted(a, v, side) for a sorted a with its masked elements last
CallSearchsorted ==
    /\ SortedTarget(a)
    /\ \E v \in Queries(a), side \in {"left", "right"} :
        Do2("searchsorted", <<side>>, FALSE, v, searchsorted(a, v, side))

\* the argument lists of get_duck_cls: objects and lists of objects
DuckArgs ==
    LET leaves == {Obj(c) : c \in DuckClasses \cup {"ndarray", "float"}}
        lists == {List(l) : l \in ListOf(leaves, MaxListLen)}
    IN  ListOf(leaves \cup lists, MaxArgs)

\* the known_types of the two ducktypes, as ducktype_link sets them: the
\* type itself and ndarray, and the other type or not
KnownTypes ==
    {[c \in DuckClasses |-> {c, "ndarray"} \cup (IF lists[c] THEN DuckClasses ELSE {})] :
        lists \in [DuckClasses -> BOOLEAN]}

\* get_duck_cls(*args)
CallGetDuckCls ==
    \E args \in DuckArgs, known \in KnownTypes :
        /\ pc = "idle"
        /\ pc' = "done"
        /\ call' = [f |-> "get_duck_cls", axis |-> <<>>, swap |-> FALSE]
        /\ argb' = [kind |-> "ducks", items |-> args, known |-> known]
        /\ res' = get_duck_cls(args, known)
        /\ UNCHANGED <<a, b, arg, views>>

\* the class of a mix of ducktypes
NextDuck ==
    \/ CallGetDuckCls
    \/ Return

SpecDuck == InitHelpers /\ [][NextDuck]_vars

\* the finite float data such a call starts from: what the calls before it
\* left in a grows no further
MaxFinite == 3

InRange(arr) ==
    \A i \in 1..Len(arr.d.v) :
        arr.d.v[i] \in Infs \cup {NaN} \cup (TypeMin..MaxFinite)

\* np.add(a, y, out=a), np.add(y, a, out=a)
CallBinOpAliased ==
    /\ Size(a.d.shape) <= MaxBinSize
    /\ InRange(a)
    /\ \E y \in SecondOperands(a), swap \in BOOLEAN :
        Do2("add", <<>>, swap, y, BinOp_aliased("add", a, y, swap))

\* np.add.reduce(a, axis, out=a[i]) or out=a[:, j], and the other reductions
\* of ufuncs; np.sum the same
CallReduceAliased ==
    /\ InRange(a)
    /\ \E func \in ReduceOps \cup {"sum"}, axis \in IntAxes(a.d.shape) :
        \E region \in OutRegions(a.d.shape, axis) :
            Do(func, axis, IF func = "sum" THEN sum_aliased(a, axis, region)
                           ELSE reduce_aliased(func, a, axis, region))

\* the names of the calls ufunc.accumulate
AccumulateOf ==
    [add |-> "add.accumulate", multiply |-> "multiply.accumulate",
     maximum |-> "maximum.accumulate", minimum |-> "minimum.accumulate"]

\* np.add.accumulate(a, axis, out=a) and the other ufuncs; np.cumsum(a, axis, out=a)
CallAccumulateAliased ==
    /\ InRange(a)
    /\ \E func \in ReduceOps \cup {"cumsum"}, axis \in IntAxes(a.d.shape) :
        Do(IF func = "cumsum" THEN func ELSE AccumulateOf[func], axis,
           IF func = "cumsum" THEN cumsum_aliased(a, axis)
           ELSE accumulate_aliased(func, a, axis))

\* np.dot(a, y, out=a)
CallDotAliased ==
    /\ Size(a.d.shape) <= MaxBinSize
    /\ InRange(a)
    /\ \E y \in {y \in DotOperands(a) : DotShape(a.d.shape, y.d.shape) = a.d.shape} :
        Do2("dot", <<>>, FALSE, y, dot_aliased(a, y))

NextAliased ==
    \/ CallBinOpAliased
    \/ CallReduceAliased
    \/ CallAccumulateAliased
    \/ CallDotAliased
    \/ Return

SpecAliased == Init /\ [][NextAliased]_vars

\* the other keys of a lexsort with arr: 1-d masked arrays of its length and
\* dtype, with any of the values of the dtype under the mask
LexKeys(arr) ==
    {Operand("MaskedArray", arr.dt, NdArray(arr.d.shape, dv), NdArray(arr.d.shape, mv), TRUE) :
        dv \in [1..Size(arr.d.shape) -> Vals(arr.dt)],
        mv \in [1..Size(arr.d.shape) -> BOOLEAN]}

\* np.lexsort((y, a)), np.lexsort((a, y))
CallLexsort ==
    /\ Len(a.d.shape) = 1
    /\ Size(a.d.shape) \in 1..MaxBinSize
    /\ \E y \in LexKeys(a), swap \in BOOLEAN :
        Do2("lexsort", <<0 - 1>>, swap, y,
            Ret2(a, y, lexsort(IF swap THEN <<AsOperand(a), y>> ELSE <<y, AsOperand(a)>>)))

\* the masks given to the constructor: a bool array of the shape of arr, or
\* one bool
MaskArgs(arr) ==
    {NdArray(sh, mv) : sh \in {arr.d.shape}, mv \in [1..Size(arr.d.shape) -> BOOLEAN]}
        \cup {NdArray(<<>>, <<mv>>) : mv \in BOOLEAN}

\* n = MaskedArray(a, mask=m): b is n; its _mask is the _mask of a
ConstructMasked ==
    /\ pc = "idle"
    /\ Size(a.d.shape) <= MaxBinSize
    /\ \E m \in MaskArgs(a) :
         LET r == init_masked(a, m)
         IN  /\ pc' = "done"
             /\ call' = [f |-> "MaskedArray(a, mask)", axis |-> <<>>, swap |-> FALSE]
             /\ arg' = a
             /\ argb' = Operand("ndarray", "bool", m, NdArray(<<>>, <<FALSE>>), TRUE)
             /\ a' = r.a
             /\ b' = AsOperand(r.n)
             /\ res' = NoResult
             /\ UNCHANGED views

\* n[ind] = val for the array n built from a: what is written to n._mask is
\* written to a._mask
AssignNew ==
    /\ pc = "done"
    /\ call.f \in {"MaskedArray(a, mask)", "n[ind] = val"}
    /\ \E ind \in 0..(MaxBinSize - 1),
          val \in {X} \cup MaskedOperands(b.dt, {<<>>}) \cup PlainOperands(b.dt, {<<>>}) :
         LET r == setitem(AsArray(b), ind, val)
         IN  /\ call' = [f |-> "n[ind] = val", axis |-> <<ind>>, swap |-> FALSE]
             /\ arg' = a
             /\ argb' = val
             /\ a' = [a EXCEPT !.m = r.a.m]
             /\ b' = AsOperand(r.a)
             /\ res' = r.res
             /\ UNCHANGED <<pc, views>>

NextMasked ==
    \/ ConstructMasked
    \/ AssignNew
    \/ Return

SpecMasked == Init /\ [][NextMasked]_vars

\* r = a.filled(f, view=True): b is r, a read-only view of the data of a, res
\* is r as it was returned and arg is a as it was before
TakeFilledView ==
    /\ pc = "idle"
    /\ Size(a.d.shape) <= MaxBinSize
    /\ \E v \in FillVals(a.dt) :
         LET f == filled(a, <<v>>, "None", TRUE)
         IN  /\ pc' = "done"
             /\ call' = [f |-> "filled", axis |-> <<v>>, swap |-> TRUE]
             /\ arg' = a
             /\ argb' = [kind |-> "fill", v |-> v]
             /\ a' = f.a
             /\ b' = Operand("ndarray", a.dt, f.out, NdArray(<<>>, <<FALSE>>), FALSE)
             /\ res' = Result("ndarray", f.out.shape, f.out.v, <<>>)
             /\ UNCHANGED views

\* what r shows after a later call has left a as arr
Through(r, arr) == [r EXCEPT !.d = arr.d]

\* a.filled(g, view=True) with another fill g while r is held
FilledAgain ==
    /\ pc = "done"
    /\ b.kind = "ndarray"
    /\ \E g \in FillVals(a.dt) \ {argb.v} :
         LET f == filled(a, <<g>>, "None", TRUE)
         IN  /\ call' = [f |-> "filled", axis |-> <<g>>, swap |-> TRUE]
             /\ a' = f.a
             /\ b' = Through(b, f.a)
             /\ UNCHANGED <<pc, arg, argb, res, views>>

\* np.sum(a, axis), np.prod, np.max, np.min, np.sort, np.argsort while r is held
CallWhileHeld ==
    /\ pc = "done"
    /\ b.kind = "ndarray"
    /\ \E func \in {"sum", "prod", "max", "min", "sort", "argsort"} :
        \E axis \in (IF func \in {"sort", "argsort"} THEN IntAxes(a.d.shape)
                     ELSE Axes(a.d.shape)) :
         LET q == array_function(func, a, axis)
         IN  /\ call' = [f |-> func, axis |-> axis, swap |-> FALSE]
             /\ a' = q.a
             /\ b' = Through(b, q.a)
             /\ UNCHANGED <<pc, arg, argb, res, views>>

NextView ==
    \/ TakeFilledView
    \/ FilledAgain
    \/ CallWhileHeld
    \/ Return

SpecView == Init /\ [][NextView]_vars

\* np.argmax(a, axis), np.argmin(a, axis)
CallArgmax ==
    \E axis \in Axes(a.d.shape) :
        Do("argmax", axis, argmax(a, axis))

CallArgmin ==
    \E axis \in Axes(a.d.shape) :
        Do("argmin", axis, argmin(a, axis))

NextArg ==
    \/ CallArgmax
    \/ CallArgmin
    \/ Return

SpecArg == Init /\ [][NextArg]_vars

\* the functions that order the elements
NextOrder ==
    \/ CallUnique
    \/ CallSearchsorted
    \/ CallLexsort
    \/ Return

SpecOrder == Init /\ [][NextOrder]_vars

(***************************************************************************)
(* The properties.                                                         *)
(***************************************************************************)
IsMaskedResult == res.kind \in {"MaskedScalar", "MaskedArray"}

\* the mask an operand brings to a binary operation, at element i of the result
OperandMaskAt(x, i) ==
    IF x.kind = "X" THEN TRUE
    ELSE IF ~IsMasked(x) THEN FALSE
    ELSE IF x.m.shape = <<>> THEN x.m.v[1]
    ELSE x.m.v[i]

\* the unmasked elements of the first n places of a slice, in order
RECURSIVE UnmaskedOf(_, _, _)
UnmaskedOf(arr, slice, n) ==
    IF n = 0 THEN <<>>
    ELSE IF arr.m.v[slice[n]] THEN UnmaskedOf(arr, slice, n - 1)
    ELSE Append(UnmaskedOf(arr, slice, n - 1), arr.d.v[slice[n]])

Unmasked(arr, slice) == UnmaskedOf(arr, slice, Len(slice))

AllMasked(arr, slice) == \A i \in 1..Len(slice) : arr.m.v[slice[i]]

\* C1: the mask of a binary elementwise operation or comparison of a and b is
\* broadcast(mask(a)) OR broadcast(mask(b)); a plain operand has an all-false
\* mask and X counts as a masked scalar.
C1_BinaryMaskIsOr ==
    (pc = "done" /\ call.f \in {"add", "less", "lt"}) =>
        /\ IsMaskedResult
        /\ res.shape = arg.d.shape
        /\ res.m = [i \in 1..Size(arg.d.shape) |->
                       arg.m.v[i] \/ OperandMaskAt(argb, i)]

C1_Witness ==
    /\ pc = "done"
    /\ call.f = "lt"
    /\ call.swap
    /\ argb.kind = "MaskedScalar"
    /\ argb.m.v = <<FALSE>>
    /\ arg.m.v = <<TRUE, FALSE>>
    /\ res.m = <<TRUE, FALSE>>

\* C2: a unary elementwise operation leaves the mask as it is, and its data is
\* the kernel applied to the operand's data.
C2_UnaryMaskUnchanged ==
    (pc = "done" /\ call.f \in UniOps) =>
        /\ res.kind = "MaskedArray"
        /\ res.m = arg.m.v
        /\ res.d = [i \in 1..Len(arg.d.v) |-> UniKernel(call.f, arg.dt, arg.d.v[i])]

C2_Witness ==
    /\ pc = "done"
    /\ call.f = "negative"
    /\ arg.dt = "int"
    /\ arg.d.v = <<1, 0 - 1, TypeMin>>
    /\ arg.m.v = <<FALSE, TRUE, FALSE>>
    /\ res.d = <<0 - 1, 1, TypeMin>>
    /\ res.m = <<FALSE, TRUE, FALSE>>

\* C3: sum and prod, as functions and as add.reduce and multiply.reduce: a result
\* element is masked exactly when its whole slice is masked, and otherwise is the
\* sum (the product) of the unmasked elements of the slice.
C3_SumProdOfUnmasked ==
    (pc = "done" /\ call.f \in {"sum", "prod", "add", "multiply"}) =>
        LET sl == Slices(arg.d.shape, call.axis)
        IN  /\ IsMaskedResult
            /\ res.shape = OutShape(arg.d.shape, call.axis)
            /\ Len(res.m) = Len(sl)
            /\ Len(res.d) = Len(sl)
            /\ \A k \in 1..Len(sl) :
                /\ res.m[k] = AllMasked(arg, sl[k])
                /\ ~res.m[k] =>
                     res.d[k] = IF call.f \in {"sum", "add"}
                                THEN np_sum(Unmasked(arg, sl[k]))
                                ELSE np_prod(Unmasked(arg, sl[k]))

\* [1, 1, --].sum() is the unmasked scalar 2
C3_Witness ==
    /\ pc = "done"
    /\ call.f = "sum"
    /\ arg.dt = "int"
    /\ arg.d.v = <<1, 1, 0 - 1>>
    /\ arg.m.v = <<FALSE, FALSE, TRUE>>
    /\ res = Result("MaskedScalar", <<>>, <<2>>, <<FALSE>>)

\* C4: mean never raises on a slice without unmasked elements: that element of
\* the result is masked; every other element is unmasked and is the sum of the
\* unmasked elements of the slice over their number.
C4_MeanOfUnmasked ==
    (pc = "done" /\ call.f = "mean") =>
        LET sl == Slices(arg.d.shape, call.axis)
        IN  /\ IsMaskedResult
            /\ Len(res.m) = Len(sl)
            /\ \A k \in 1..Len(sl) :
                /\ res.m[k] = (Len(Unmasked(arg, sl[k])) = 0)
                /\ ~res.m[k] =>
                     res.d[k] = true_divide(np_sum(Unmasked(arg, sl[k])),
                                            Len(Unmasked(arg, sl[k])))

\* the sorted lanes of a sort of (ind, inm) that gave (outd, outm)
SortedLane(ind, inm, outd, outm) ==
    LET n == Len(outd)
    IN  /\ \A i, j \in 1..n : (i < j /\ outm[i]) => outm[j]
        /\ \A i, j \in 1..n : (i < j /\ ~outm[i] /\ ~outm[j]) => outd[i] <= outd[j]
        /\ \A x \in {ind[i] : i \in 1..n} \cup {outd[i] : i \in 1..n} :
             Cardinality({i \in 1..n : ~inm[i] /\ ind[i] = x})
                 = Cardinality({i \in 1..n : ~outm[i] /\ outd[i] = x})
        /\ Cardinality({i \in 1..n : inm[i]}) = Cardinality({i \in 1..n : outm[i]})

SortedAlong(x, outd, outm, axis) ==
    LET lanes == Lanes(x.d.shape, axis)
    IN  \A l \in 1..Len(lanes) :
            SortedLane(Gather(x.d.v, lanes[l]), Gather(x.m.v, lanes[l]),
                       Gather(outd, lanes[l]), Gather(outm, lanes[l]))

\* C5: a sort, in place or by np.sort, puts every masked element after every
\* unmasked one, leaves the unmasked elements non-decreasing and a permutation
\* of the unmasked elements it was given, and keeps the number of masked ones.
C5_SortMaskedLast ==
    /\ (pc = "done" /\ call.f = "sort") =>
          res.kind = "MaskedArray" /\ SortedAlong(arg, res.d, res.m, call.axis)
    /\ (pc = "done" /\ call.f = "a.sort") =>
          res.kind = "None" /\ SortedAlong(arg, a.d.v, a.m.v, call.axis)

\* the same for the arrays that hold no unmasked nan
C5_SortMaskedLastNoNaN ==
    (\A i \in 1..Len(arg.d.v) : arg.m.v[i] \/ arg.d.v[i] # NaN) => C5_SortMaskedLast

\* x with c under the mask
Hide(x, c) == [x EXCEPT !.d = PutMask(x.d, x.m, c)]

HideOperand(y, c) == IF IsMasked(y) THEN Hide(y, c) ELSE y

\* the values put under the mask of the second array of a pair: each differs
\* from what Init puts there
TwinVals(dt) == IF dt = "int" THEN {TypeMin, TypeMax} ELSE {NegInf, PosInf}

\* the call made again on other operands
Again(x, y) ==
    IF call.f = "dot" THEN dot(AsOperand(x), y).res
    ELSE array_function(call.f, x, call.axis).res

\* two results with equal masks and equal data where unmasked
SameVisible(r1, r2) ==
    /\ r1.kind = r2.kind
    /\ r1.shape = r2.shape
    /\ r1.m = r2.m
    /\ Len(r1.d) = Len(r2.d)
    /\ IF r1.kind \in {"MaskedArray", "MaskedScalar"}
       THEN \A i \in 1..Len(r1.d) : ~r1.m[i] => r1.d[i] = r2.d[i]
       ELSE r1.d = r2.d

\* C9: two arrays with equal masks and equal data where unmasked give, under
\* sum, prod, mean, max, min, np.sort, argsort and dot, results with equal masks
\* and equal data where the result is unmasked.
C9_MaskedDataNeverRead ==
    (pc = "done" /\ call.f \in HANDLED_FUNCTIONS \cup {"dot"}) =>
        \A c \in TwinVals(arg.dt) :
            SameVisible(res, Again(Hide(arg, c), HideOperand(argb, c)))

C9_Witness ==
    /\ pc = "done"
    /\ call.f = "min"
    /\ arg.dt = "int"
    /\ arg.d.v = <<0 - 1, TypeMax>>
    /\ arg.m.v = <<TRUE, FALSE>>
    /\ res = Result("MaskedScalar", <<>>, <<TypeMax>>, <<FALSE>>)

\* C10: max and min, as functions and as maximum.reduce and minimum.reduce: a
\* result element is masked exactly when its whole slice is masked, and
\* otherwise is the maximum (minimum) of the unmasked elements of the slice.
C10_MaxMinOfUnmasked ==
    (pc = "done" /\ call.f \in {"max", "min", "maximum", "minimum"}) =>
        LET sl == Slices(arg.d.shape, call.axis)
        IN  /\ (res.kind = "raise") = (Size(arg.d.shape) = 0)
            /\ res.kind # "raise" =>
                /\ IsMaskedResult
                /\ Len(res.m) = Len(sl)
                /\ \A k \in 1..Len(sl) :
                    /\ res.m[k] = AllMasked(arg, sl[k])
                    /\ ~res.m[k] =>
                         res.d[k] = IF call.f \in {"max", "maximum"}
                                    THEN np_max(Unmasked(arg, sl[k]))
                                    ELSE np_min(Unmasked(arg, sl[k]))

\* the only unmasked element is the type's minimum, the filler of max
C10_Witness ==
    /\ pc = "done"
    /\ call.f = "max"
    /\ arg.dt = "int"
    /\ arg.d.v = <<TypeMin, 0 - 1>>
    /\ arg.m.v = <<FALSE, TRUE>>
    /\ call.axis = <<>>
    /\ res = Result("MaskedScalar", <<>>, <<TypeMin>>, <<FALSE>>)

\* C6: MaskedArray(a.filled(f), a.mask) has the mask of a everywhere and the
\* data of a wherever a is unmasked, for every array a and fill value f.
C6_FilledRoundTrip ==
    (pc = "done" /\ call.f = "roundtrip") =>
        /\ res.kind = "MaskedArray"
        /\ res.shape = arg.d.shape
        /\ res.m = arg.m.v
        /\ Len(res.d) = Len(arg.d.v)
        /\ \A i \in 1..Len(arg.d.v) : ~arg.m.v[i] => res.d[i] = arg.d.v[i]

\* the fill value differs from the data under the mask
C6_Witness ==
    /\ pc = "done"
    /\ call.f = "roundtrip"
    /\ arg.dt = "int"
    /\ arg.d.v = <<TypeMax, 0 - 1>>
    /\ arg.m.v = <<FALSE, TRUE>>
    /\ argb.d.v = <<TypeMin>>
    /\ res = Result("MaskedArray", <<2>>, <<TypeMax, TypeMin>>, <<FALSE, TRUE>>)

\* the elements of a literal, in order
RECURSIVE LeavesOf(_)
LeavesOf(lit) ==
    IF lit.kind = "list"
    THEN Concat([i \in 1..Len(lit.items) |-> LeavesOf(lit.items[i])])
    ELSE <<lit>>

ConstructedAsGiven ==
    LET leaves == LeavesOf(argb.lit)
        numbers == {i \in 1..Len(leaves) : leaves[i].kind # "X"}
    IN  IF numbers = {} /\ argb.dtype.form = "None" THEN res.kind = "raise"
        ELSE /\ res.kind # "raise"
             /\ a.m.v = [i \in 1..Len(leaves) |-> leaves[i].kind = "X"]
             /\ Len(a.d.v) = Len(leaves)
             /\ \A i \in numbers : a.d.v[i] = leaves[i].d.v[1]
             /\ count(a, <<>>).v = <<Cardinality(numbers)>>

\* C7: an array constructed from a literal of numbers and X, without a mask,
\* is masked exactly where the literal has X, holds the numbers elsewhere and
\* counts the numbers; a literal of X only, without a dtype, is refused.
C7_ConstructFromLiteral ==
    (pc = "done" /\ call.f = "MaskedArray") => ConstructedAsGiven

\* the same for the literals that hold an element and are not X alone with
\* the name of a dtype
C7_ConstructFromLiteralWithElements ==
    (/\ pc = "done"
     /\ call.f = "MaskedArray"
     /\ Len(LeavesOf(argb.lit)) > 0
     /\ ~(argb.lit.kind = "X" /\ argb.dtype.form = "str")) => ConstructedAsGiven

Contributors ==
    LET s1 == arg.d.shape
        s2 == argb.d.shape
        n2 == Size(s2)
        rows == Rows(s1)
        cols == IF call.f = "dot" THEN Cols(s2) ELSE Rows(s2)
        nc == Len(cols)
    IN  IF call.f = "outer"
        THEN [p \in 1..(Size(s1) * n2) |->
                 << <<((p - 1) \div n2) + 1, ((p - 1) % n2) + 1>> >>]
        ELSE [p \in 1..(Len(rows) * nc) |->
                 [k \in 1..Len(rows[((p - 1) \div nc) + 1]) |->
                     <<rows[((p - 1) \div nc) + 1][k], cols[((p - 1) % nc) + 1][k]>>]]

\* a contributing pair with a masked element
MaskedPair(pr) == arg.m.v[pr[1]] \/ (IsMasked(argb) /\ argb.m.v[pr[2]])

\* the statement of C11 as given: a result element of dot, inner and outer is
\* masked exactly when at least one contributing element is masked
C11_AnyMaskedContributor ==
    (pc = "done" /\ call.f \in {"dot", "inner", "outer"}) =>
        /\ IsMaskedResult
        /\ Len(res.m) = Len(Contributors)
        /\ \A p \in 1..Len(res.m) :
             res.m[p] = (\E k \in 1..Len(Contributors[p]) : MaskedPair(Contributors[p][k]))

\* C11: a result element of dot, inner and outer is masked exactly when every
\* contributing pair of elements has a masked element, that is when no pair of
\* unmasked elements contributes; for outer, whose elements have one
\* contributing pair, that is when one of the two elements is masked.
C11_NoValidContributor ==
    (pc = "done" /\ call.f \in {"dot", "inner", "outer"}) =>
        /\ IsMaskedResult
        /\ Len(res.m) = Len(Contributors)
        /\ \A p \in 1..Len(res.m) :
             res.m[p] = (\A k \in 1..Len(Contributors[p]) : MaskedPair(Contributors[p][k]))

\* a masked element contributes and the result is not masked
C11_Witness ==
    /\ pc = "done"
    /\ call.f = "inner"
    /\ arg.m.v = <<TRUE, FALSE>>
    /\ argb.kind = "MaskedArray"
    /\ argb.m.v = <<FALSE, FALSE>>
    /\ res.kind = "MaskedScalar"
    /\ res.m = <<FALSE>>

\* the products of the pairs of unmasked elements among prs, in order
RECURSIVE ValidProducts(_, _)
ValidProducts(prs, n) ==
    IF n = 0 THEN <<>>
    ELSE IF MaskedPair(prs[n]) THEN ValidProducts(prs, n - 1)
    ELSE Append(ValidProducts(prs, n - 1), multiply(arg.d.v[prs[n][1]], argb.d.v[prs[n][2]]))

\* C12: an element of dot(a, b) is masked exactly when no summation index has
\* both factors unmasked, and otherwise is the sum of the products over the
\* indices where both factors are unmasked.
C12_DotOfValidPairs ==
    (pc = "done" /\ call.f = "dot") =>
        /\ IsMaskedResult
        /\ Len(res.m) = Len(Contributors)
        /\ Len(res.d) = Len(Contributors)
        /\ \A p \in 1..Len(res.m) :
             LET prs == Contributors[p]
             IN  /\ res.m[p] = ~(\E k \in 1..Len(prs) : ~MaskedPair(prs[k]))
                 /\ ~res.m[p] =>
                      res.d[p] = Wrap(arg.dt, np_sum(ValidProducts(prs, Len(prs))))

\* the same for operands whose unmasked data is finite
C12_DotOfValidPairsFinite ==
    (\A i \in 1..Len(arg.d.v) : arg.m.v[i] \/ arg.d.v[i] \notin {NaN, NegInf, PosInf})
        => C12_DotOfValidPairs

RECURSIVE MaskedClassesIn(_)
\* the classes of the masked operands among args, at any depth
MaskedClassesIn(args) ==
    UNION {IF args[i].kind = "list" THEN MaskedClassesIn(args[i].items)
           ELSE IF args[i].cls \in MaskedClasses THEN {args[i].cls}
           ELSE {} : i \in 1..Len(args)}

\* the array types of the masked operands of the call
ArrayTypesIn(args) == {ArrayType(c) : c \in MaskedClassesIn(args)}

\* what the type resolution is to give for masked operands of these array
\* types: the one that derives from all the others, or the ambiguity error
MostDerived(types) ==
    IF \E t \in types : \A u \in types : issubclass(t, u)
    THEN Result("type", <<>>, <<CHOOSE t \in types : \A u \in types : issubclass(t, u)>>, <<>>)
    ELSE Raise("TypeError")

\* C13: over any nesting of arguments with a masked operand, get_mask_cls
\* returns the array type of the most derived masked type, whatever the
\* operands that are not masked, and raises the ambiguity error when two
\* masked operands at any depth have types that do not derive from each other
C13_MostDerivedMaskedType ==
    (pc = "done" /\ call.f = "get_mask_cls" /\ MaskedClassesIn(argb.items) # {})
        => res = MostDerived(ArrayTypesIn(argb.items))

\* C13 holds when no argument is a list or tuple
C13_MostDerivedMaskedTypeFlat ==
    (pc = "done" /\ call.f = "get_mask_cls" /\ MaskedClassesIn(argb.items) # {}
     /\ \A i \in 1..Len(argb.items) : argb.items[i].kind = "obj")
        => res = MostDerived(ArrayTypesIn(argb.items))

\* C14: with no masked operand among its arguments (plain arrays, scalars,
\* the sentinel, or no argument at all) get_mask_cls returns MaskedArray
C14_NoMaskedGivesMaskedArray ==
    (pc = "done" /\ call.f = "get_mask_cls" /\ MaskedClassesIn(argb.items) = {})
        => res = Result("type", <<>>, <<"MaskedArray">>, <<>>)

\* the operands a registration declares as checked: by default those whose
\* types the call site reports
CheckedOperands(func, args) ==
    LET ca == checked_args_of(func)
        at == IF ca.form = "callable" THEN {1}
              ELSE IF ca.form = "tuple" THEN {n + 1 : n \in ca.idx} \cap (1..Len(args))
              ELSE {j \in 1..Len(args) : TypeOf(args[j]) \in DispatchTypes(args)}
    IN  {args[j] : j \in at}

PlainScalar(v) == v.cls \in {"float", "float64"}

Recognized(v) ==
    v.cls \in {"MaskedArray", "MaskedScalar", "SubArray", "MaskedX", "ndarray"} \/ PlainScalar(v)

\* C15: __array_function__ declines with NotImplemented for a function that
\* is not registered; for a registered one it invokes the implementation
\* exactly when every checked operand is of a masked type, a plain ndarray or
\* a plain scalar, and declines otherwise
C15_DispatchDecision ==
    (pc = "done" /\ call.f = "__array_function__") =>
        IF argb.func = "einsum_path" THEN res = Raise("NotImplemented")
        ELSE IF \A v \in CheckedOperands(argb.func, argb.items) : Recognized(v)
        THEN res = Result("impl", <<>>, <<argb.func>>, <<>>)
        ELSE res = Raise("NotImplemented")

\* C15 holds of the calls in which no checked operand is a plain scalar and
\* y is not given to cov by keyword
C15_DispatchDecisionNoScalar ==
    (pc = "done" /\ call.f = "__array_function__" /\ argb.kwds = {}
     /\ \A v \in CheckedOperands(argb.func, argb.items) : ~PlainScalar(v)) =>
        IF argb.func = "einsum_path" THEN res = Raise("NotImplemented")
        ELSE IF \A v \in CheckedOperands(argb.func, argb.items) : Recognized(v)
        THEN res = Result("impl", <<>>, <<argb.func>>, <<>>)
        ELSE res = Raise("NotImplemented")

\* the result of the call in progress when it is made without out
WithoutOut ==
    CASE call.f \in {"sum", "prod", "max", "min"} -> array_function(call.f, arg, call.axis).res
      [] call.f \in ReduceOps /\ argb.y = NoOperand -> reduce(call.f, arg, call.axis).res
      [] call.f \in UniOps -> UniOp(call.f, AsOperand(arg))
      [] call.f = "add" -> BinOp("add", AsOperand(arg), argb.y)
      [] call.f = "dot" -> dot(AsOperand(arg), argb.y).res
      [] call.f = "trace" -> trace(arg).res
      [] call.f = "concatenate" ->
            Result("MaskedArray", <<Len(arg.d.v) + 1>>,
                   arg.d.v \o argb.y.d.v, arg.m.v \o AsMaskedView(argb.y).m.v)

\* out, as the call found it, can take the result
OutTakesResult ==
    /\ pc = "done"
    /\ argb.kind = "out"
    /\ argb.out.kind = "MaskedArray"
    /\ WithoutOut.kind # "raise"
    /\ argb.out.d.shape = WithoutOut.shape

\* out after the call holds the data and the mask of the result and is what
\* the call returned
OutHoldsResult ==
    /\ res.kind = "out"
    /\ b.out.d.v = [i \in 1..Len(WithoutOut.d) |-> Wrap(b.out.dt, WithoutOut.d[i])]
    /\ b.out.m.v = WithoutOut.m

\* C16: after a call given a masked array as out, out's data holds the data
\* of the result, out's mask holds exactly the mask of the result, and the
\* object returned is out
C16_OutHoldsResult == OutTakesResult => OutHoldsResult

\* C16 holds of the calls other than trace and concatenate
C16_OutHoldsResultButTraceConcatenate ==
    (OutTakesResult /\ call.f \notin {"trace", "concatenate"}) => OutHoldsResult

\* an assignment into the result of a call has just been made
AssignedResult == pc = "done" /\ call.f = "setitem" /\ "of" \in DOMAIN call

\* C17: the result of an elementwise operation or reduction without out
\* shares no storage with an operand: an index assignment into it, of the
\* sentinel or of a value, leaves the operand as it was
C17_ResultSharesNoStorage == AssignedResult => a = arg

\* C17 holds of the binary operations, comparisons and reductions
C17_ResultSharesNoStorageButUnary ==
    (AssignedResult /\ call.of \notin UniOps) => a = arg

\* x after a call is x before it but for the data under its mask
SameVisibleOperand(before, after) ==
    /\ after.d.shape = before.d.shape
    /\ IF "kind" \notin DOMAIN before \/ IsMasked(before)
       THEN /\ after.m = before.m
            /\ \A i \in 1..Len(before.d.v) : ~before.m.v[i] => after.d.v[i] = before.d.v[i]
       ELSE after.d = before.d

\* C18: a call of sum, prod, mean, max, min, np.sort, argsort, dot, a ufunc
\* reduce or cov without out leaves the mask of every operand as it was and
\* its data as they were at the unmasked positions
C18_OperandsKept ==
    pc = "done" =>
        /\ SameVisibleOperand(arg, a)
        /\ call.f = "dot" => SameVisibleOperand(argb, b)

\* C18 holds of the calls other than cov
C18_OperandsKeptButCov ==
    (pc = "done" /\ call.f # "cov") =>
        /\ SameVisibleOperand(arg, a)
        /\ call.f = "dot" => SameVisibleOperand(argb, b)

\* the flat positions that a[ind] names
Targets(shape, ind) ==
    {p \in 1..Size(shape) : (p - 1) \div (Size(shape) \div shape[1]) = ind}

\* C19: a[i] = v changes the positions that i names and no other: the
\* sentinel sets their mask and leaves their data, a masked value gives them
\* its data and its mask, a plain value gives them its data and clears
\* their mask
C19_SetItemFrame ==
    (pc = "done" /\ call.f = "setitem") =>
        IF res.kind = "raise" THEN a = arg
        ELSE /\ a.d.shape = arg.d.shape
             /\ a.m.shape = arg.m.shape
             /\ \A p \in 1..Len(arg.d.v) :
                    IF p \in Targets(arg.d.shape, call.axis[1])
                    THEN IF argb.kind = "X"
                         THEN a.m.v[p] /\ a.d.v[p] = arg.d.v[p]
                         ELSE IF IsMasked(argb)
                         THEN a.d.v[p] = argb.d.v[1] /\ a.m.v[p] = argb.m.v[1]
                         ELSE a.d.v[p] = argb.d.v[1] /\ ~a.m.v[p]
                    ELSE a.d.v[p] = arg.d.v[p] /\ a.m.v[p] = arg.m.v[p]

\* the sentinel assigned to the first row of an unmasked array of two rows
C19_Witness ==
    /\ pc = "done"
    /\ call.f = "setitem"
    /\ call.axis = <<0>>
    /\ argb.kind = "X"
    /\ arg.d.shape = <<2, 1>>
    /\ arg.m.v = <<FALSE, FALSE>>
    /\ a.m.v = <<TRUE, FALSE>>
    /\ a.d.v = arg.d.v

\* the fill value as the call's arguments are to resolve it: the explicit
\* value when one is given, else the entry of the minmax policy, else 0
ResolvedFill ==
    IF call.axis # NoValue THEN call.axis[1]
    ELSE IF argb.minmax = "max" THEN max_filler(arg.dt)
    ELSE IF argb.minmax = "min" THEN min_filler(arg.dt)
    ELSE 0

FilledAsResolved ==
    /\ res.kind = "ndarray"
    /\ res.shape = arg.d.shape
    /\ \A i \in 1..Len(arg.d.v) :
            res.d[i] = IF arg.m.v[i] THEN ResolvedFill ELSE arg.d.v[i]

\* C20: filled(fill_value, minmax, view) returns a plain array that holds the
\* data at the unmasked positions and the resolved fill value at the masked
\* ones; an explicit fill_value wins, also when minmax is given with it
C20_FilledResolvesFill ==
    (pc = "done" /\ call.f = "filled") => FilledAsResolved

\* C20 holds when fill_value and minmax are not given together
C20_FilledResolvesFillNotBoth ==
    (pc = "done" /\ call.f = "filled" /\ (call.axis = NoValue \/ argb.minmax = "None"))
        => FilledAsResolved

\* the sum of (n * u[i] - sum(u)) ^ 2 over a sequence u of n finite numbers
RECURSIVE SumSquares(_, _, _)
SumSquares(u, total, i) ==
    IF i = 0 THEN 0
    ELSE SumSquares(u, total, i - 1)
             + (Len(u) * u[i] - total) * (Len(u) * u[i] - total)

RECURSIVE Total(_, _)
Total(u, i) == IF i = 0 THEN 0 ELSE Total(u, i - 1) + u[i]

\* whether q is the variance with ddof of the numbers u: the sum of their
\* squared deviations from their mean over Len(u) - ddof; nan when a number
\* is not finite
IsVariance(q, u, ddof) ==
    IF \E i \in 1..Len(u) : u[i] = NaN \/ u[i] \in Infs THEN q.num = NaN
    ELSE /\ q.den # 0
         /\ q.num * (Len(u) * Len(u) * (Len(u) - ddof))
                = SumSquares(u, Total(u, Len(u)), Len(u)) * q.den

MaskedLast(arr, lane, p) ==
    LET n == Len(lane)
        at(k) == lane[p[k] + 1]
        c == Cardinality({i \in 1..n : ~arr.m.v[lane[i]]})
    IN  /\ Len(p) = n
        /\ {p[k] : k \in 1..n} = 0..(n - 1)
        /\ \A k \in 1..n : arr.m.v[at(k)] = (k > c)
        /\ \A k \in 1..(c - 1) : arr.d.v[at(k)] <= arr.d.v[at(k + 1)]

UnmaskedValues(arr) == {arr.d.v[i] : i \in {j \in 1..Len(arr.d.v) : ~arr.m.v[j]}}

\* whether data d and mask m list the set S once each in increasing order
\* (a nan, which equals nothing, as often as it occurs), then one masked
\* entry if withmasked and none otherwise
ListsOnce(d, m, S, withmasked) ==
    LET c == Len(d) - (IF withmasked THEN 1 ELSE 0)
    IN  /\ c >= 0
        /\ Len(m) = Len(d)
        /\ \A k \in 1..Len(d) : m[k] = (k > c)
        /\ {d[k] : k \in 1..c} = S
        /\ \A k \in 1..(c - 1) : d[k] < d[k + 1] \/ d[k] = NaN

UniqueOfUnmasked ==
    /\ res.kind = "MaskedArray"
    /\ ListsOnce(res.d, res.m, UnmaskedValues(arg), \E i \in 1..Len(arg.m.v) : arg.m.v[i])

\* C23: unique(a) with axis=None returns every distinct unmasked value of a
\* once, in increasing order, followed by one masked entry when a has a
\* masked element and by none otherwise, whatever lies under the mask and
\* also when an unmasked value equals the min-filler.
C23_UniqueOfUnmasked ==
    (pc = "done" /\ call.f = "unique") => UniqueOfUnmasked

\* C23 for arrays without an unmasked nan beside a masked element.
C23_UniqueOfUnmaskedNoNaN ==
    (/\ pc = "done"
     /\ call.f = "unique"
     /\ ~(/\ NaN \in UnmaskedValues(arg)
          /\ \E i \in 1..Len(arg.m.v) : arg.m.v[i])) => UniqueOfUnmasked

\* the index that query i of the call is to get: after the unmasked values
\* of the target for a masked query, the insertion index among the unmasked
\* values otherwise
InsertionIndex(i) ==
    LET real == Unmasked(arg, [k \in 1..Len(arg.d.v) |-> k])
    IN  IF argb.m.v[i] THEN Len(real)
        ELSE np_searchsorted(real, argb.d.v[i], call.axis[1])

SearchsortedAsClaimed ==
    /\ res.kind = "ndarray"
    /\ Len(res.d) = Len(argb.d.v)
    /\ \A i \in 1..Len(res.d) : res.d[i] = InsertionIndex(i)

\* C24: searchsorted(a, v, side) on a sorted masked a gives every masked
\* entry of v, for both sides, the index just after the unmasked values of
\* a, len(a) minus the number of its masked elements, and every unmasked
\* entry its insertion index among the unmasked values of a.
C24_SearchsortedMasked ==
    (pc = "done" /\ call.f = "searchsorted") => SearchsortedAsClaimed

\* C24 for side='left' and queries without an unmasked nan.
C24_SearchsortedLeft ==
    (/\ pc = "done"
     /\ call.f = "searchsorted"
     /\ call.axis = <<"left">>
     /\ \A i \in 1..Len(argb.d.v) : argb.m.v[i] \/ argb.d.v[i] # NaN) =>
        SearchsortedAsClaimed

\* a call of get_duck_cls on two objects of the two ducktypes, in an order
TwoDucks ==
    /\ pc = "done"
    /\ call.f = "get_duck_cls"
    /\ Len(argb.items) = 2
    /\ \A i \in 1..2 : argb.items[i].kind = "obj"
    /\ {argb.items[1].cls, argb.items[2].cls} = DuckClasses

\* the class that lists the other in its known_types supersedes; when
\* neither or both do, TypeError
SupersedesAsDocumented ==
    LET A == argb.items[1].cls
        B == argb.items[2].cls
        AlistsB == B \in argb.known[A]
        BlistsA == A \in argb.known[B]
    IN  IF AlistsB /\ ~BlistsA THEN res = Result("type", <<>>, <<A>>, <<>>)
        ELSE IF BlistsA /\ ~AlistsB THEN res = Result("type", <<>>, <<B>>, <<>>)
        ELSE res = Raise("TypeError")

\* C25: get_duck_cls on two non-inheriting ducktypes returns the one that
\* lists the other in its known_types when exactly one does, and raises
\* TypeError when neither or both do, whatever the order of the operands.
C25_DuckClsOfTwo == TwoDucks => SupersedesAsDocumented

\* C25 when the two ducktypes do not both list each other.
C25_DuckClsOfTwoNotBoth ==
    (/\ TwoDucks
     /\ ~(\A c \in DuckClasses : DuckClasses \subseteq argb.known[c])) =>
        SupersedesAsDocumented

(***************************************************************************)
(* C26: out aliasing an input.                                             *)
(***************************************************************************)
\* what the call gives from the operands as they were before it, computed
\* into storage of its own
Unaliased ==
    CASE call.f = "add" /\ argb.kind # "None" ->
            IF call.swap THEN BinOp("add", argb, AsOperand(arg))
            ELSE BinOp("add", AsOperand(arg), argb)
      [] call.f \in ReduceOps /\ argb.kind = "None" -> reduce(call.f, arg, call.axis).res
      [] call.f = "sum" -> sum(arg, call.axis).res
      [] call.f = "cumsum" -> cumsum(arg, call.axis).res
      [] call.f = "dot" -> dot(AsOperand(arg), argb).res
      [] OTHER -> accumulate(CHOOSE u \in ReduceOps : AccumulateOf[u] = call.f,
                             arg, call.axis).res

\* C26: when the out of an elementwise binary operation, of a reduction or
\* an accumulation of a ufunc, of sum, of cumsum or of dot is one of the
\* call's own inputs or a view of it, the mask the call leaves in out is the
\* mask rule applied to the masks of the inputs as they were before the call,
\* and the data it leaves in out is the result computed from the inputs as
\* they were before the call
C26_AliasedOutHoldsResult ==
    pc = "done" =>
        /\ res.kind = "out"
        /\ res.m = Unaliased.m
        /\ res.d = Cast(arg.dt, Unaliased.d)

\* a reduction along axis 0 wrote into the operand's first row, whose element
\* was masked while the result is not
C26_Witness ==
    /\ pc = "done"
    /\ call.f \in {"add", "sum"}
    /\ argb.kind = "None"
    /\ Len(arg.d.shape) = 2
    /\ call.axis = <<0>>
    /\ arg.m.v[1]
    /\ ~res.m[1]
    /\ a.d.v[1] = res.d[1]
    /\ res.d[1] # arg.d.v[1]
    /\ ~a.m.v[1]

(***************************************************************************)
(* C27: lexsort.                                                           *)
(***************************************************************************)
\* the keys of the call, the primary key last
KeysOfCall == IF call.swap THEN <<AsOperand(arg), argb>> ELSE <<argb, AsOperand(arg)>>

\* in the primary key the masked entries come after the unmasked ones
PrimaryMaskedLast ==
    LET prim == KeysOfCall[2]
    IN  \A i, j \in 1..Len(res.d) :
            (prim.m.v[res.d[i] + 1] /\ ~prim.m.v[res.d[j] + 1]) => j < i

\* the order is that of the same keys with c under their masks
OrderWithHidden(c) ==
    res.d = lexsort([q \in 1..2 |-> Hide(KeysOfCall[q], c)]).d

\* C27: lexsort puts the masked entries of the primary (last) key after its
\* unmasked entries, and its index order is the same for any two key tuples
\* with equal masks and equal unmasked data: ties among masked entries are
\* broken by the remaining keys, never by the data under a mask
C27_LexsortIgnoresMaskedData ==
    (pc = "done" /\ call.f = "lexsort") =>
        /\ PrimaryMaskedLast
        /\ \A c \in Vals(arg.dt) : OrderWithHidden(c)

\* the same for keys that each hold one value under all of their mask
C27_LexsortUniformMaskedData ==
    (/\ pc = "done"
     /\ call.f = "lexsort"
     /\ \A q \in 1..2 : \A i, j \in 1..Len(res.d) :
            (KeysOfCall[q].m.v[i] /\ KeysOfCall[q].m.v[j])
                => KeysOfCall[q].d.v[i] = KeysOfCall[q].d.v[j]) =>
        /\ PrimaryMaskedLast
        /\ \A c \in Vals(arg.dt) : OrderWithHidden(c)

(***************************************************************************)
(* C28: MaskedArray(a, mask=m).                                            *)
(***************************************************************************)
\* the mask of the array built is a.mask OR m
MaskIsOr ==
    call.f = "MaskedArray(a, mask)" =>
        b.m = logical_or(arg.m, argb.d)

\* C28: MaskedArray(a, mask=m) with the default copy=False gives an array
\* whose mask is a.mask OR m; it leaves the source a as it was, and a later
\* assignment to the array built does not change a
C28_SourceKept ==
    pc = "done" =>
        /\ MaskIsOr
        /\ a = arg

\* the array built has the mask a.mask OR m, and neither the call nor a
\* later assignment to the array built changes the data of a
C28_SourceDataKept ==
    pc = "done" =>
        /\ MaskIsOr
        /\ a.d = arg.d

(***************************************************************************)
(* C29: the read-only view a.filled(f, view=True).                         *)
(***************************************************************************)
\* C29: r = a.filled(f, view=True) keeps f at the masked positions as long as
\* nothing is assigned to a: no later a.filled(g, view=True) with another g,
\* sum, prod, max, min, np.sort or argsort on a changes r
C29_FilledViewKept ==
    (pc = "done" /\ b.kind = "ndarray") =>
        /\ b.d.v = res.d
        /\ \A i \in 1..Len(b.d.v) : a.m.v[i] => b.d.v[i] = argb.v

\* r keeps what it showed at the unmasked positions, and the mask of a stays
C29_FilledViewKeptWhereUnmasked ==
    (pc = "done" /\ b.kind = "ndarray") =>
        /\ a.m = arg.m
        /\ \A i \in 1..Len(b.d.v) : ~a.m.v[i] => b.d.v[i] = res.d[i]

(***************************************************************************)
(* C30: argmax and argmin.                                                 *)
(***************************************************************************)
\* the index returned for slice k is that of an unmasked element that holds
\* the extreme of the unmasked elements of the slice
PointsAtExtreme(k) ==
    LET slice == Slices(arg.d.shape, call.axis)[k]
        p == slice[res.d[k] + 1]
    IN  /\ ~arg.m.v[p]
        /\ arg.d.v[p] = IF call.f = "argmax" THEN np_max(Unmasked(arg, slice))
                        ELSE np_min(Unmasked(arg, slice))

\* what C30 claims of a call of argmax or argmin
ArgExtremeOfUnmasked ==
    \A k \in 1..Len(res.d) :
        ~AllMasked(arg, Slices(arg.d.shape, call.axis)[k]) => PointsAtExtreme(k)

\* C30: argmax and argmin of an array (a slice) with at least one unmasked
\* element return the index of an unmasked element that holds the maximum
\* (minimum) of the unmasked elements, never the index of a masked element,
\* also when unmasked elements equal the minimum or the maximum of the type
C30_ArgExtremeOfUnmasked ==
    (pc = "done" /\ call.f \in {"argmax", "argmin"} /\ res.kind # "raise") =>
        ArgExtremeOfUnmasked

\* the same for slices whose unmasked elements are not all the filler that
\* the masked elements are given
C30_ArgExtremeAboveFiller ==
    (pc = "done" /\ call.f \in {"argmax", "argmin"} /\ res.kind # "raise") =>
        \A k \in 1..Len(res.d) :
            LET slice == Slices(arg.d.shape, call.axis)[k]
                filler == IF call.f = "argmax" THEN max_filler(arg.dt)
                          ELSE min_filler(arg.dt)
            IN  (\E i \in 1..Len(slice) :
                    ~arg.m.v[slice[i]] /\ arg.d.v[slice[i]] # filler) => PointsAtExtreme(k)

====
